---- MODULE Spec2Model ----
(***************************************************************************)
(* A model of cherry/testtiming/luci.go: the LUCI client (ListCommits,     *)
(* ListBuilders, GetBuilds, ReadBoard) and the main program that reads the *)
(* board and extracts test timings.                                        *)
(*                                                                         *)
(* Times are integers (a greater number is a later instant).  Page tokens  *)
(* are naturals, 0 being the empty token.  A Go map is a function whose    *)
(* domain is the set of keys present.  A *BuildResult is a pointer, here   *)
(* the pair (map id, key) of the map slot that holds the object.           *)
(***************************************************************************)
EXTENDS Integers, Sequences, FiniteSets, TLC

\* ------------------------------------------------------------------ bounds
\* Builders the builder registry holds at most.
MaxBuilders == 3
\* The greatest nProc a client is created with.
MaxProc == 2
\* Builds one build search returns at most (all pages together), when the
\* reconciliation of one builder is explored.
MaxBuilds == 2
\* Commits the source log serves at most (all pages together).
MaxCommits == 2
\* The greatest argument the host calls G with.
MaxArg == 8
\* Pages one paged listing has at most.
MaxPages == 2
\* The latest instant of a commit or of a build end.
MaxTime == 2

\* The calls in progress the stack has room for: G(x), x > 0, has at most
\* three calls in progress for every two it counts down, and G(0) has three.
MaxDepth == 2 * MaxArg + 3

\* --------------------------------------------------------------- constants
resultDBHost == "results.api.cr.dev"
\* The zero time.Time (the value of BuildResult.Time before it is stamped);
\* it is before the Unix epoch, which is instant 0.
ZeroTime == 0 - 1
\* The empty page token "".
NoToken == 0
\* A nil error.
NoErr == "nil"
\* A nil *BuildResult.
NilPtr == [map |-> 0, key |-> ""]
\* A nil [][]*BuildResult: a slice is nil or holds rows.
NilResults == [nil |-> TRUE, rows |-> <<>>]
\* An empty Go map.
EmptyMap == [h \in {} |-> NilPtr]

\* time.Time.Before
Before(a, b) == a < b

\* m[k] = v on a Go map.
MapPut(m, k, v) == [x \in (DOMAIN m) \cup {k} |-> IF x = k THEN v ELSE m[x]]

\* The index at which a loop from the first element on breaks, S being the
\* indexes whose element matches: the least of S, 0 when none matches.
FirstIdx(S) ==
    IF S = {} THEN 0 ELSE CHOOSE i \in S : \A j \in S : i <= j

\* The index at which a loop from the last element down breaks: the greatest
\* of S, 0 when none matches.
LastIdx(S) ==
    IF S = {} THEN 0 ELSE CHOOSE i \in S : \A j \in S : j <= i

\* The indexes of the elements of s named by one of names.
Named(s, names) == {i \in 1..Len(s) : s[i].name \in names}

\* ------------------------------------------- ReadBoard: one raw build
\* The fields of a source entry's commit: read under "gitilesCommit", and
\* under "gitiles_commit" when that key is absent; the getters of an absent
\* value give empty strings.
SourceFields(fm) ==
    IF "gitilesCommit" \in DOMAIN fm THEN fm["gitilesCommit"]
    ELSE IF "gitiles_commit" \in DOMAIN fm THEN fm["gitiles_commit"]
    ELSE [project |-> "", id |-> ""]

\* The switch with the case "go" put first.
ResolveStepGoFirst(acc, fm, repo) ==
    LET x == SourceFields(fm) IN
    IF x.project = "go" THEN [acc EXCEPT !.goCommit = x.id]
    ELSE IF x.project = repo THEN [acc EXCEPT !.commit = x.id]
    ELSE acc

\* The switch on the entry's project: the first matching case wins.
ResolveStep(acc, fm, repo) ==
    LET x == SourceFields(fm) IN
    IF x.project = repo THEN [acc EXCEPT !.commit = x.id]
    ELSE IF x.project = "go" THEN [acc EXCEPT !.goCommit = x.id]
    ELSE acc

RECURSIVE ResolveFrom(_, _, _)
ResolveFrom(acc, sources, repo) ==
    IF sources = <<>> THEN acc
    ELSE ResolveFrom(ResolveStep(acc, Head(sources), repo), Tail(sources), repo)

\* commit and goCommit of a raw build, scanned over prop["sources"].
ResolveCommits(b, repo) ==
    ResolveFrom([commit |-> "", goCommit |-> ""], b.sources, repo)

\* strings.Contains(name, "(combined output)") on the link names in use.
ContainsCombinedOutput(name) ==
    name \in {"(combined output)", "go test (combined output)"}

\* The log of the whole run taken from the failure links alone.
LinkLogURL(b) ==
    LET i == FirstIdx({n \in 1..Len(b.links) :
                         ContainsCombinedOutput(b.links[n].name)})
    IN IF i = 0 THEN "" ELSE b.links[i].url

\* The log of the whole run of a FAILURE build: the first "(combined
\* output)" failure link, else the build's first log named stderr.
WholeLogURL(b) ==
    LET i == FirstIdx({n \in 1..Len(b.links) :
                         ContainsCombinedOutput(b.links[n].name)})
        fromLinks == IF i = 0 THEN "" ELSE b.links[i].url
        j == FirstIdx(Named(b.logs, {"stderr"}))
    IN IF fromLinks # "" THEN fromLinks
       ELSE IF j = 0 THEN "" ELSE b.logs[j].viewUrl

\* The first log of step s named stderr or output, 0 when it has none.
StepLog(s) == FirstIdx(Named(s.logs, {"stderr", "output"}))
IsFailedStepWithLog(s) == s.status = "FAILURE" /\ StepLog(s) # 0

\* The log of the first failed step that has a stderr or output log.
FirstFailedStepLogURL(b) ==
    LET i == FirstIdx({n \in 1..Len(b.steps) : b.steps[n].status = "FAILURE"
                         /\ Named(b.steps[n].logs, {"stderr", "output"}) # {}})
    IN IF i = 0 THEN ""
       ELSE b.steps[i].logs[FirstIdx(Named(b.steps[i].logs,
                                           {"stderr", "output"}))].viewUrl

\* The log of the last failed step that has a stderr or output log.
FailedStepLogURL(b) ==
    LET i == LastIdx({n \in 1..Len(b.steps) : IsFailedStepWithLog(b.steps[n])})
    IN IF i = 0 THEN "" ELSE b.steps[i].logs[StepLog(b.steps[i])].viewUrl

\* The BuildResult made of raw build b for builder bld.
NewBuildResult(b, rc, bld) ==
    [ID |-> b.id,
     Status |-> b.status,
     Commit |-> rc.commit,
     Time |-> ZeroTime,
     GoCommit |-> rc.goCommit,
     BuildTime |-> b.endTime,
     Builder |-> bld.Name,
     Config |-> bld.Config,
     InvocationID |-> b.invocation,
     LogURL |-> IF b.status = "FAILURE" THEN WholeLogURL(b) ELSE "",
     StepLogURL |-> IF b.status = "FAILURE" THEN FailedStepLogURL(b) ELSE ""]

\* The dedup decision with the comparison turned round: the arriving build
\* is dropped when it ended after the stored one.
DedupSkipsLater(buildTime, r0) == Before(r0.BuildTime, buildTime)

\* The dedup decision that also drops a build that ended when the stored one
\* did.
DedupSkipsTies(buildTime, r0) == ~Before(r0.BuildTime, buildTime)

\* No dedup decision: the arriving build always replaces the stored one.
DedupNever(buildTime, r0) == FALSE

\* The dedup decision: the arriving build is dropped when it ended before
\* the stored one.
DedupSkips(buildTime, r0) == Before(buildTime, r0.BuildTime)

\* A switch with no fallthrough: the SUCCESS case logs and leaves the
\* switch, and the build is processed with the empty commit hash.
SkippedUnlessSuccess(status) == status # "SUCCESS"

\* The switch on the status of a build with no commit: the SUCCESS case
\* falls through to the default case, which continues with the next build.
NoCommitSkipped(status) == TRUE

\* log.Printf("empty commit: ...")
EmptyCommitLogged(b, repo) ==
    ResolveCommits(b, repo).commit = "" /\ b.status = "SUCCESS"

\* One iteration of the loop over a builder's builds, on the builder's map
\* m: what becomes of the map, and whether log.Fatalf ended the process.
ProcessBuild(m, b, bld, repo) ==
    LET rc == ResolveCommits(b, repo) IN
    IF rc.commit = "" /\ NoCommitSkipped(b.status) THEN [fatal |-> FALSE, m |-> m]
    ELSE IF rc.commit \in DOMAIN m /\ DedupSkips(b.endTime, m[rc.commit])
        THEN [fatal |-> FALSE, m |-> m]
    ELSE IF b.hostname # resultDBHost THEN [fatal |-> TRUE, m |-> m]
    ELSE IF b.builder # bld.Name THEN [fatal |-> TRUE, m |-> m]
    ELSE [fatal |-> FALSE, m |-> MapPut(m, rc.commit, NewBuildResult(b, rc, bld))]

\* The whole loop over builds on map m; it stops at a fatal build.
RECURSIVE Reconcile(_, _, _, _)
Reconcile(m, builds, bld, repo) ==
    IF builds = <<>> THEN [fatal |-> FALSE, m |-> m]
    ELSE LET r == ProcessBuild(m, Head(builds), bld, repo) IN
         IF r.fatal THEN r ELSE Reconcile(r.m, Tail(builds), bld, repo)

\* ------------------------------------------------------ the remote services
\* All sequences over S of length at most n.
SeqsUpTo(S, n) == UNION {[1..k -> S] : k \in 0..n}

HashNames == <<"h0", "h1", "h2", "h3", "h4", "h5">>
BuilderNames == <<"b1", "b2", "b3", "b4", "b5">>
UnitErrs == <<"rpc error b1", "rpc error b2", "rpc error b3", "rpc error b4",
              "rpc error b5">>
ErrCanceled == "context canceled"
ErrListBuilders == "rpc error ListBuilders"
ErrLog == "rpc error Log"
ErrQuery == "rpc error QueryTestResults"

\* The instant `since` of the run: commits before it end the listing.
Since == 1

\* The commits of the source log: a commit's time is part of the commit its
\* hash names, so a hash has one time.
CommitUniverse == {[Hash |-> HashNames[t + 1], Time |-> t] : t \in 0..MaxTime}

\* The builders of the registry, each with its configuration JSON: one that
\* decodes to (project, go_branch), or a malformed one.
PropsUniverse(repo, branch) ==
    {[valid |-> TRUE, project |-> repo, go_branch |-> branch],
     [valid |-> TRUE, project |-> repo, go_branch |-> "release-branch"],
     [valid |-> FALSE, project |-> "", go_branch |-> ""]}
\* The place of a builder name among the names in use.
NameIdx(n) == CHOOSE i \in 1..Len(BuilderNames) : BuilderNames[i] = n

\* The pages the registry of the n first builders may serve next: builders
\* not listed yet, each once, in any order.
RegistryPages(n, listed, repo, branch) ==
    LET rest == {BuilderNames[i] : i \in 1..n} \ listed
        names == {ns \in SeqsUpTo(rest, Cardinality(rest)) :
                     \A i, j \in 1..Len(ns) : ns[i] = ns[j] => i = j}
    IN UNION {{[i \in 1..Len(ns) |-> [name |-> ns[i], properties |-> ps[i]]] :
                  ps \in [1..Len(ns) -> PropsUniverse(repo, branch)]} :
              ns \in names}

\* A source entry naming commit id of project, under either key spelling.
Src(project, id) == [gitilesCommit |-> [project |-> project, id |-> id]]
SrcOld(project, id) == [gitiles_commit |-> [project |-> project, id |-> id]]

StatusNum(st) == IF st = "SUCCESS" THEN 0 ELSE 1
HashNum(h) ==
    IF h = "" THEN 0 ELSE CHOOSE i \in 1..Len(HashNames) : HashNames[i] = h

\* A raw build of the build search. kind 0 is a build as expected, 1 one
\* with another result-store host, 2 one that names another builder.
MkBuild(kind, st, h, t, name, repo) ==
    LET id == ((kind * 2 + StatusNum(st)) * (Len(HashNames) + 1) + HashNum(h))
                  * (MaxTime + 1) + t + 1
    IN [id |-> id,
        status |-> st,
        sources |-> IF h = "" THEN <<>>
                    ELSE IF repo = "go" THEN <<Src(repo, h)>>
                    ELSE <<SrcOld(repo, h), Src("go", "h5")>>,
        endTime |-> t,
        hostname |-> IF kind = 1 THEN "other.api.cr.dev" ELSE resultDBHost,
        builder |-> IF kind = 2 THEN "another-builder" ELSE name,
        invocation |-> 100 + id,
        links |-> IF t = 1 THEN <<[name |-> "go test (combined output)",
                                   url |-> "https://logs/combined"]>>
                  ELSE <<>>,
        logs |-> <<[name |-> "stdout", viewUrl |-> "https://logs/stdout"],
                   [name |-> "stderr", viewUrl |-> "https://logs/stderr"]>>,
        steps |-> <<[status |-> "FAILURE",
                     logs |-> <<[name |-> "output", viewUrl |-> "https://logs/step/output"]>>],
                    [status |-> "SUCCESS",
                     logs |-> <<[name |-> "stderr", viewUrl |-> "https://logs/step/stderr"]>>]>>]

\* The builds a build search for builder `name` may return when one
\* builder's reconciliation is explored; the hash "" makes a build with no
\* source entry (no resolvable commit).
RichBuilds(name, repo) ==
    {MkBuild(0, st, "h1", t, name, repo) :
        st \in {"SUCCESS", "FAILURE"}, t \in 1..MaxTime}
    \cup {MkBuild(0, "SUCCESS", "h2", t, name, repo) : t \in 1..MaxTime}
    \cup {MkBuild(0, "SUCCESS", "", 1, name, repo)}
    \cup {MkBuild(0, "INFRA_FAILURE", "", 1, name, repo)}
    \cup {MkBuild(1, "SUCCESS", "h1", t, name, repo) : t \in 1..MaxTime}
    \cup {MkBuild(2, "SUCCESS", "h1", 1, name, repo)}

\* The builds a build search may return when the whole board is explored.
BoardBuilds(name, repo) ==
    {MkBuild(0, "FAILURE", "h1", MaxTime, name, repo),
     MkBuild(1, "SUCCESS", "h1", 1, name, repo)}

\* The failure-metadata links a build may carry: a "(combined output)" link
\* with a url, one whose url is empty or absent (the getter gives ""), and
\* a link of another name.
LinkUniverse ==
    {[name |-> "go test (combined output)", url |-> "https://logs/combined"],
     [name |-> "(combined output)", url |-> ""],
     [name |-> "go vet", url |-> "https://logs/vet"]}

\* The output logs a build may carry.
LogUniverse ==
    {[name |-> "stdout", viewUrl |-> "https://logs/stdout"],
     [name |-> "stderr", viewUrl |-> "https://logs/stderr"],
     [name |-> "stderr", viewUrl |-> "https://logs/stderr/2"]}

\* A raw build of commit h1 with the given failure links and output logs.
MkLogBuild(st, links, logs, name, repo) ==
    [MkBuild(0, st, "h1", 1, name, repo) EXCEPT !.links = links, !.logs = logs]

\* The builds a build search may return when the log references are
\* explored: every status with up to two links and up to two logs.
LogBuilds(name, repo) ==
    {MkLogBuild(st, links, logs, name, repo) :
        st \in {"SUCCESS", "FAILURE", "INFRA_FAILURE"},
        links \in SeqsUpTo(LinkUniverse, 2),
        logs \in SeqsUpTo(LogUniverse, 2)}

\* The source entries a build may carry: a commit of the repository "go",
\* of "tools" or of another one, under either key spelling; an entry with
\* both keys, which name different commits; an entry with neither key.
SourceUniverse ==
    {Src(p, id) : p \in {"go", "tools", "build"}, id \in {"h1", "h2"}}
    \cup {SrcOld(p, id) : p \in {"go", "tools"}, id \in {"h3"}}
    \cup {[gitilesCommit |-> [project |-> "tools", id |-> "h4"],
           gitiles_commit |-> [project |-> "go", id |-> "h5"]],
          [change |-> [project |-> "go", id |-> "h1"]]}

\* A raw build with the given source entries.
MkSourceBuild(sources, name, repo) ==
    [MkBuild(0, "SUCCESS", "h1", 1, name, repo) EXCEPT !.sources = sources]

\* The builds a build search may return when the resolution of the commit
\* hashes is explored: up to two source entries.
SourceBuilds(name, repo) ==
    {MkSourceBuild(sources, name, repo) : sources \in SeqsUpTo(SourceUniverse, 2)}

\* A step called `tag`, with a log of each of the names given, in order.
MkStep(tag, st, names) ==
    [status |-> st,
     logs |-> [n \in 1..Len(names) |->
                  [name |-> names[n],
                   viewUrl |-> "https://logs/" \o tag \o "/" \o names[n]]]]

\* The steps a build may have.
StepUniverse ==
    {MkStep(tag, st, names) :
        tag \in {"build", "test"},
        st \in {"SUCCESS", "FAILURE"},
        names \in {<<>>, <<"stdout">>, <<"stdout", "output", "stderr">>,
                   <<"stderr", "output">>}}

\* A raw build of commit h1 with the given steps, with or without a
\* "(combined output)" failure link.
MkStepBuild(st, linked, steps, name, repo) ==
    [MkBuild(0, st, "h1", IF linked THEN 1 ELSE MaxTime, name, repo)
        EXCEPT !.steps = steps]

\* The builds a build search may return when the step logs are explored: up
\* to two steps.
StepBuilds(name, repo) ==
    {MkStepBuild(st, linked, steps, name, repo) :
        st \in {"SUCCESS", "FAILURE"}, linked \in BOOLEAN,
        steps \in SeqsUpTo(StepUniverse, 2)}

\* A SUCCESS build of commit h by builder `name`, its invocation told from
\* that of every other builder and commit.
MkCellBuild(h, name, repo) ==
    [MkBuild(0, "SUCCESS", h, 1, name, repo) EXCEPT
        !.invocation = 1000 * NameIdx(name) + HashNum(h)]

\* The builds a build search may return when the extraction is explored.
CellBuilds(name, repo) == {MkCellBuild(h, name, repo) : h \in {"h1", "h2"}}

\* The test results a query may return.
ResultUniverse ==
    {<<>>,
     <<[status |-> "PASS", dur |-> 1]>>,
     <<[status |-> "FAIL", dur |-> 2], [status |-> "SKIP", dur |-> 0],
       [status |-> "PASS", dur |-> 1]>>,
     <<[status |-> "CRASH", dur |-> 3]>>}

\* The pages of a registry that lists its builders by ascending name.
SortedRegistryPages(n, listed, repo, branch) ==
    {page \in RegistryPages(n, listed, repo, branch) :
        /\ \A i \in 1..Len(page), l \in listed : NameIdx(l) < NameIdx(page[i].name)
        /\ \A i, j \in 1..Len(page) :
              i < j => NameIdx(page[i].name) < NameIdx(page[j].name)}

\* The test results a query may return.
TestResultUniverse ==
    {[status |-> st, dur |-> 1] : st \in {"PASS", "FAIL", "SKIP"}}

\* ------------------------------------------------------------------- state
VARIABLES
    proc,        \* the process: "running", "fatal" (log.Fatal), "panic", "exit"
    pc,          \* where the main goroutine is
    nProc,       \* LUCIClient.nProc
    flagBuilder, \* the -builder flag
    dash,        \* the Dashboard: Repo, GoBranch, Builders, Commits, Results
    lc,          \* ListCommits: commits, pageToken, committish; and sent,
                 \* the history of its Log requests
    lb,          \* ListBuilders: builders, pageToken; and sent, the history
                 \* of its ListBuilders requests
    served,      \* the builder registry: the names listed so far
    loopI,       \* ReadBoard: the index i of the loop over dash.Builders
    dashMap,     \* ReadBoard: dashMap, a map id per builder (0: nil)
    heap,        \* the maps made by make(map[string]*BuildResult), by map id
    unit,        \* the goroutines started by g.Go, by builder index
    g,           \* the errgroup: active (tokens in sem), err, cancelled
    rbErr,       \* what ReadBoard returned
    ext,         \* main: the indices i, j of the loops over the matrix
    queries,     \* history: the test-result queries issued, each with its
                 \* invocation id and its answer (results or an error)
    out,         \* the CSV lines printed
    launched,    \* history: the builder indices passed to g.Go, in order
    errLog       \* history: the errors the units returned, in order

\* The wasmexport test: the host program w.go and the Wasm module it loads.
VARIABLES
    stack,       \* the calls in progress across host and module, the
                 \* innermost last: function, argument, position, value
    sender,      \* the goroutine that E starts: its state and the value it
                 \* sends on ch
    trace        \* history: the calls and the returns, in order

vars == <<proc, pc, nProc, flagBuilder, dash, lc, lb, served, loopI, dashMap,
          heap, unit, g, rbErr, ext, queries, out, launched, errLog,
          stack, sender, trace>>

wasmVars == <<stack, sender, trace>>
luciVars == <<proc, pc, nProc, flagBuilder, dash, lc, lb, served, loopI,
              dashMap, heap, unit, g, rbErr, ext, queries, out, launched,
              errLog>>

readBoardVars == <<loopI, dashMap, heap, unit, g, launched, errLog>>
mainVars == <<ext, queries, out>>

\* The branch asked for, whatever the repository.
CallerBranch(repo, goBranch) == goBranch

\* The branch ListCommits lists: goBranch for the repository "go", master
\* for every other one.
Branch(repo, goBranch) == IF repo = "go" THEN goBranch ELSE "master"

\* ------------------------------------------------------------------ Init
\* NewLUCIClient panics for nProc < 1, so a client has nProc >= 1; main
\* makes dash with the flags -repo and -branch (either may be empty) and
\* nothing else.
Init ==
    /\ proc = "running"
    /\ pc = "ListCommits"
    /\ nProc \in 1..MaxProc
    /\ flagBuilder \in {"", "b1"}
    /\ \E repo \in {"", "go", "tools"},
          branch \in {"", "master", "release-branch"} :
         dash = [Repo |-> repo, GoBranch |-> branch, Builders |-> <<>>,
                 Commits |-> <<>>, Results |-> NilResults]
    /\ lc = [commits |-> <<>>, pageToken |-> NoToken,
             committish |-> Branch(dash.Repo, dash.GoBranch),
             sent |-> <<>>]
    /\ lb = [builders |-> <<>>, pageToken |-> NoToken, sent |-> <<>>]
    /\ served = {}
    /\ loopI = 1
    /\ dashMap = <<>>
    /\ heap = <<>>
    /\ unit = <<>>
    /\ g = [active |-> 0, err |-> NoErr, cancelled |-> FALSE]
    /\ rbErr = NoErr
    /\ ext = [i |-> 1, j |-> 1]
    /\ queries = <<>>
    /\ out = <<>>
    /\ launched = <<>>
    /\ errLog = <<>>
    /\ stack = <<>>
    /\ sender = [st |-> "none", val |-> 0]
    /\ trace = <<>>

\* ------------------------------------------------------- paged requests
\* The record of a request sent with page token `token` and of its answer:
\* a page of items and a next page token, or an error.
Answered(token, resp) ==
    [token |-> token, err |-> NoErr, items |-> resp.items, next |-> resp.next]
Failed(token, err) ==
    [token |-> token, err |-> err, items |-> <<>>, next |-> NoToken]

\* The Log request whose outcome is h: it names the project and the
\* committish "refs/heads/" + branch.
LogRequest(h) ==
    [token |-> h.token, err |-> h.err, items |-> h.items, next |-> h.next,
     project |-> dash.Repo, committish |-> "refs/heads/" \o lc.committish]

\* The page token of the next request, one that is never renewed.
StalePageToken(token, next) == token

\* pageToken = resp.GetNextPageToken()
NextPageToken(token, next) == next

\* ------------------------------------------------------------ ListCommits
\* A commit at `since` counts as before it.
IsOldOrAtSince(c) == ~Before(Since, c.Time)

\* commitTime.Before(since)
IsOld(c) == Before(c.Time, Since)

\* A response with no next page token does not end the listing.
MorePagesWhileRecent(stop, next) == stop = 0

\* An old commit ends the loop over the page only.
MorePagesAfterOld(stop, next) == next # NoToken

\* Whether ListCommits goes to nextPage: no commit of the page was before
\* since (goto done) and the response has a next page token.
MorePages(stop, next) == stop = 0 /\ next # NoToken

\* One Log request and the loop over its commits: the listing ends at the
\* first commit before since, or when the response has no next page token.
ListCommitsPage(Responses) ==
    /\ proc = "running" /\ pc = "ListCommits"
    /\ \E resp \in Responses :
         /\ LET page == resp.items
                next == resp.next
                stop == FirstIdx({n \in 1..Len(page) : IsOld(page[n])})
                taken == IF stop = 0 THEN page ELSE SubSeq(page, 1, stop - 1)
                commits == lc.commits \o taken
                sent == Append(lc.sent, LogRequest(Answered(lc.pageToken, resp)))
            IN IF MorePages(stop, next)
               THEN /\ lc' = [lc EXCEPT !.commits = commits, !.sent = sent,
                                        !.pageToken = NextPageToken(@, next)]
                    /\ UNCHANGED <<pc, dash>>
               ELSE /\ lc' = [lc EXCEPT !.commits = commits, !.sent = sent]
                    /\ pc' = "ListCommitsDone"
                    /\ UNCHANGED dash
    /\ UNCHANGED <<proc, nProc, flagBuilder, lb, served, rbErr>>
    /\ UNCHANGED readBoardVars /\ UNCHANGED mainVars
    /\ UNCHANGED wasmVars

\* done: ListCommits returns commits, which ReadBoard puts in dash.Commits;
\* the call is over, and so is the history of its requests.
ReadBoardCommits ==
    /\ proc = "running" /\ pc = "ListCommitsDone"
    /\ dash' = [dash EXCEPT !.Commits = lc.commits]
    /\ lc' = [lc EXCEPT !.sent = <<>>]
    /\ pc' = "ListBuilders"
    /\ UNCHANGED <<proc, nProc, flagBuilder, lb, served, rbErr>>
    /\ UNCHANGED readBoardVars /\ UNCHANGED mainVars
    /\ UNCHANGED wasmVars

\* The Log request fails: log.Fatal.
ListCommitsFail ==
    /\ proc = "running" /\ pc = "ListCommits"
    /\ lc' = [lc EXCEPT !.sent =
                          Append(@, LogRequest(Failed(lc.pageToken, ErrLog)))]
    /\ proc' = "fatal"
    /\ UNCHANGED <<pc, nProc, flagBuilder, dash, lb, served, rbErr>>
    /\ UNCHANGED readBoardVars /\ UNCHANGED mainVars
    /\ UNCHANGED wasmVars

\* ----------------------------------------------------------- ListBuilders
\* json.Unmarshal into a zero BuilderConfigProperties; the error is dropped.
DecodeProperties(p) ==
    IF p.valid THEN [Repo |-> p.project, GoBranch |-> p.go_branch]
    ELSE [Repo |-> "", GoBranch |-> ""]

\* A builder whose configuration JSON does not decode is dropped.
KeepDecodedOnly(item, repo, goBranch, builder) ==
    /\ item.properties.valid
    /\ \/ repo = "" /\ goBranch = ""
       \/ item.properties.project = repo /\ item.properties.go_branch = goBranch
    /\ ~(builder # "" /\ item.name # builder)

\* Whether the loop over a page appends the builder: the configuration
\* filter, then the name filter.
KeepBuilder(item, repo, goBranch, builder) ==
    LET p == DecodeProperties(item.properties)
        all == repo = "" /\ goBranch = ""
    IN /\ all \/ (p.Repo = repo /\ p.GoBranch = goBranch)
       /\ ~(builder # "" /\ item.name # builder)

RECURSIVE FilterBuilders(_, _, _, _)
FilterBuilders(page, repo, goBranch, builder) ==
    IF page = <<>> THEN <<>>
    ELSE (IF KeepBuilder(Head(page), repo, goBranch, builder)
          THEN <<[Name |-> Head(page).name,
                  Config |-> DecodeProperties(Head(page).properties)]>>
          ELSE <<>>)
         \o FilterBuilders(Tail(page), repo, goBranch, builder)

\* strings.Compare(a, b) < 0 on the builder names in use.
NameLess(a, b) == NameIdx(a) < NameIdx(b)

\* The builders in the order of the pages.
Unsorted(s) == s

\* slices.SortFunc by name.
RECURSIVE SortByName(_)
SortByName(s) ==
    IF s = <<>> THEN <<>>
    ELSE LET least == CHOOSE i \in 1..Len(s) :
                         \A j \in 1..Len(s) :
                             ~NameLess(s[j].Name, s[i].Name) \/ j = i
             rest == [k \in 1..(Len(s) - 1) |-> IF k < least THEN s[k] ELSE s[k + 1]]
         IN <<s[least]>> \o SortByName(rest)

\* One ListBuilders request and the loop over its builders; the registry
\* lists each builder once.
ListBuildersPage(Responses) ==
    /\ proc = "running" /\ pc = "ListBuilders"
    /\ \E resp \in Responses :
         /\ served' = served \cup {resp.items[i].name : i \in 1..Len(resp.items)}
         /\ LET page == resp.items
                next == resp.next
                builders == lb.builders \o
                    FilterBuilders(page, dash.Repo, dash.GoBranch, flagBuilder)
                sent == Append(lb.sent, Answered(lb.pageToken, resp))
            IN IF next # NoToken
               THEN /\ lb' = [builders |-> builders, sent |-> sent,
                              pageToken |-> NextPageToken(lb.pageToken, next)]
                    /\ UNCHANGED <<pc, dash, dashMap>>
               ELSE /\ lb' = [lb EXCEPT !.builders = SortByName(builders),
                                        !.sent = sent]
                    /\ pc' = "ListBuildersDone"
                    /\ UNCHANGED <<dash, dashMap>>
    /\ UNCHANGED <<proc, nProc, flagBuilder, lc, rbErr>>
    /\ UNCHANGED <<loopI, heap, unit, g, launched, errLog>>
    /\ UNCHANGED mainVars
    /\ UNCHANGED wasmVars

\* ListBuilders returns builders and nil: ReadBoard puts them in
\* dash.Builders and makes dashMap; the call is over, and so is the history
\* of its requests.
ReadBoardBuilders ==
    /\ proc = "running" /\ pc = "ListBuildersDone"
    /\ dash' = [dash EXCEPT !.Builders = lb.builders]
    /\ dashMap' = [i \in 1..Len(lb.builders) |-> 0]
    /\ lb' = [lb EXCEPT !.sent = <<>>]
    /\ pc' = IF lb.builders = <<>> THEN "Wait" ELSE "Loop"
    /\ UNCHANGED <<proc, nProc, flagBuilder, lc, served, rbErr>>
    /\ UNCHANGED <<loopI, heap, unit, g, launched, errLog>>
    /\ UNCHANGED mainVars
    /\ UNCHANGED wasmVars

\* A listing that returns, with the error, the builders it has.
PartialOnErr(builders) == builders

\* return nil, err
NilOnErr(builders) == <<>>

\* The ListBuilders request fails: ListBuilders returns nil and the error;
\* ReadBoard puts nil in dash.Builders and returns the error.
ListBuildersFail ==
    /\ proc = "running" /\ pc = "ListBuilders"
    /\ dash' = [dash EXCEPT !.Builders = NilOnErr(lb.builders)]
    /\ rbErr' = ErrListBuilders
    /\ lb' = [lb EXCEPT !.builders = NilOnErr(lb.builders),
                        !.sent = Append(@, Failed(lb.pageToken, ErrListBuilders))]
    /\ pc' = "Returned"
    /\ UNCHANGED <<proc, nProc, flagBuilder, lc, served>>
    /\ UNCHANGED readBoardVars /\ UNCHANGED mainVars
    /\ UNCHANGED wasmVars

\* ------------------------------------------------- ReadBoard: the fan-out
\* One map made before the loop and shared by every iteration.
SharedMapId(i) == 1

\* make(map[string]*BuildResult) in iteration i of the loop: a new map.
NewMapId(i) == i

\* A group with no limit: g.Go never blocks.
SemNoLimit(active, limit) == TRUE

\* A semaphore that holds one token less than the limit.
SemOneShort(active, limit) == active < limit - 1

\* g.Go blocks while the semaphore of g.SetLimit(nProc) is full.
SemFree(active, limit) == active < limit

\* Every error overwrites the one recorded.
RecordLastErr(gerr, err) == err

\* errOnce.Do: only the first error is kept.
RecordErr(gerr, err) == IF gerr = NoErr THEN err ELSE gerr

\* A Wait that waits for no goroutine.
NoWait == TRUE

\* wg.Wait(): every goroutine started has run g.done().
AllDone == \A i \in 1..Len(unit) : unit[i].pc = "done"

\* The body of the loop up to g.Go: the builder's map is made and put in
\* dashMap[i].
LoopBody ==
    /\ proc = "running" /\ pc = "Loop"
    /\ LET id == NewMapId(loopI) IN
         /\ heap' = IF id \in DOMAIN heap THEN heap
                    ELSE [x \in (DOMAIN heap) \cup {id} |->
                             IF x = id THEN EmptyMap ELSE heap[x]]
         /\ dashMap' = [dashMap EXCEPT ![loopI] = id]
    /\ pc' = "Go"
    /\ UNCHANGED <<proc, nProc, flagBuilder, dash, lc, lb, served, rbErr>>
    /\ UNCHANGED <<loopI, unit, g, launched, errLog>>
    /\ UNCHANGED mainVars
    /\ UNCHANGED wasmVars

\* g.Go: takes a token of the semaphore, then starts the goroutine, which
\* has captured this iteration's builder and map.
GoUnit ==
    /\ proc = "running" /\ pc = "Go"
    /\ SemFree(g.active, nProc)
    /\ g' = [g EXCEPT !.active = g.active + 1]
    /\ unit' = Append(unit, [pc |-> "GetBuilds",
                             builder |-> dash.Builders[loopI],
                             buildMap |-> dashMap[loopI],
                             builds |-> <<>>,
                             pageToken |-> NoToken,
                             sent |-> <<>>,
                             logged |-> <<>>,
                             k |-> 1])
    /\ launched' = Append(launched, loopI)
    /\ loopI' = loopI + 1
    /\ pc' = IF loopI + 1 > Len(dash.Builders) THEN "Wait" ELSE "Loop"
    /\ UNCHANGED <<proc, nProc, flagBuilder, dash, lc, lb, served, rbErr>>
    /\ UNCHANGED <<dashMap, heap, errLog>>
    /\ UNCHANGED mainVars
    /\ UNCHANGED wasmVars

\* The goroutine of g.Go ends with err: the first error is recorded and
\* cancels the group's context; g.done() gives the token back.  The history
\* of the unit's requests ends with the unit, unless a request failed.
UnitEnds(i, err) ==
    /\ unit' = [unit EXCEPT ![i] =
           [@ EXCEPT !.pc = "done", !.builds = <<>>, !.pageToken = NoToken,
                     !.k = 1,
                     !.sent = IF err = NoErr THEN <<>>
                              ELSE Append(@, Failed(unit[i].pageToken, err))]]
    /\ g' = [active |-> g.active - 1,
             err |-> IF err = NoErr THEN g.err ELSE RecordErr(g.err, err),
             cancelled |-> g.cancelled \/ err # NoErr]
    /\ errLog' = IF err = NoErr THEN errLog ELSE Append(errLog, err)

\* One SearchBuilds request of unit i succeeds.
UnitGetBuildsPage(i, Responses) ==
    /\ proc = "running"
    /\ i \in 1..Len(unit) /\ unit[i].pc = "GetBuilds"
    /\ ~g.cancelled
    /\ \E resp \in Responses :
         /\ unit' = [unit EXCEPT ![i] =
                [@ EXCEPT !.builds = @ \o resp.items,
                          !.pageToken = NextPageToken(@, resp.next),
                          !.sent = Append(@, Answered(unit[i].pageToken, resp)),
                          !.pc = IF resp.next # NoToken THEN "GetBuilds"
                                 ELSE "loop"]]
    /\ UNCHANGED <<proc, pc, nProc, flagBuilder, dash, lc, lb, served, rbErr>>
    /\ UNCHANGED <<loopI, dashMap, heap, g, launched, errLog>>
    /\ UNCHANGED mainVars
    /\ UNCHANGED wasmVars

\* One SearchBuilds request of unit i fails, with its own error or, once
\* the group's context is cancelled, the context's: GetBuilds returns nil
\* and the error, and so does the unit.
UnitGetBuildsFail(i) ==
    /\ proc = "running"
    /\ i \in 1..Len(unit) /\ unit[i].pc = "GetBuilds"
    /\ \E err \in {UnitErrs[i]} \cup {e \in {ErrCanceled} : g.cancelled} :
         UnitEnds(i, err)
    /\ UNCHANGED <<proc, pc, nProc, flagBuilder, dash, lc, lb, served, rbErr>>
    /\ UNCHANGED <<loopI, dashMap, heap, launched>>
    /\ UNCHANGED mainVars
    /\ UNCHANGED wasmVars

\* One iteration of unit i's loop over its builds.
UnitProcess(i) ==
    /\ proc = "running"
    /\ i \in 1..Len(unit) /\ unit[i].pc = "loop" /\ unit[i].k <= Len(unit[i].builds)
    /\ LET u == unit[i]
           r == ProcessBuild(heap[u.buildMap], u.builds[u.k], u.builder, dash.Repo)
       IN IF r.fatal
          THEN /\ proc' = "fatal"
               /\ UNCHANGED <<heap, unit>>
          ELSE /\ heap' = [heap EXCEPT ![u.buildMap] = r.m]
               /\ unit' = [unit EXCEPT ![i] =
                      [@ EXCEPT !.k = u.k + 1,
                                !.logged =
                                    IF EmptyCommitLogged(u.builds[u.k], dash.Repo)
                                    THEN Append(@, u.builds[u.k].id) ELSE @]]
               /\ UNCHANGED proc
    /\ UNCHANGED <<pc, nProc, flagBuilder, dash, lc, lb, served, rbErr>>
    /\ UNCHANGED <<loopI, dashMap, g, launched, errLog>>
    /\ UNCHANGED mainVars
    /\ UNCHANGED wasmVars

\* Unit i's loop is over: the unit returns nil.
UnitReturn(i) ==
    /\ proc = "running"
    /\ i \in 1..Len(unit) /\ unit[i].pc = "loop" /\ unit[i].k > Len(unit[i].builds)
    /\ UnitEnds(i, NoErr)
    /\ UNCHANGED <<proc, pc, nProc, flagBuilder, dash, lc, lb, served, rbErr>>
    /\ UNCHANGED <<loopI, dashMap, heap, launched>>
    /\ UNCHANGED mainVars
    /\ UNCHANGED wasmVars

\* ------------------------------------------------- ReadBoard: the fan-in
\* The commit time taken from the build: its end time.
StampBuildTime(r, c) == [r EXCEPT !.Time = r.BuildTime]

\* r.Time = c.Time
StampTime(r, c) == [r EXCEPT !.Time = c.Time]

\* What the loop over the commits leaves in map m: each result found is
\* stamped at every column of its hash, the last one last.
StampMap(m, commits) ==
    [h \in DOMAIN m |->
        LET j == LastIdx({n \in 1..Len(commits) : commits[n].Hash = h})
        IN IF j = 0 THEN m[h] ELSE StampTime(m[h], commits[j])]

\* len(dash.Results[i])
RowLen == Len(dash.Commits)

\* A row that holds the results found only, appended one after the other.
ResultsRowFound(id, m) ==
    LET found == SelectSeq(dash.Commits, LAMBDA c : c.Hash \in DOMAIN m)
    IN [j \in 1..Len(found) |-> [map |-> id, key |-> found[j].Hash]]

\* dash.Results[i]: a pointer to the result of each column's hash.
ResultsRow(id, m) ==
    [j \in 1..RowLen |->
        IF j <= Len(dash.Commits) /\ dash.Commits[j].Hash \in DOMAIN m
        THEN [map |-> id, key |-> dash.Commits[j].Hash]
        ELSE NilPtr]

\* g.Wait() returns once every unit has ended; with an error ReadBoard
\* returns it.
WaitErr ==
    /\ proc = "running" /\ pc = "Wait"
    /\ AllDone
    /\ g.err # NoErr
    /\ g' = [g EXCEPT !.cancelled = TRUE]
    /\ rbErr' = g.err
    /\ pc' = "Returned"
    /\ UNCHANGED <<proc, nProc, flagBuilder, dash, lc, lb, served>>
    /\ UNCHANGED <<loopI, dashMap, heap, unit, launched, errLog>>
    /\ UNCHANGED mainVars
    /\ UNCHANGED wasmVars

\* g.Wait() returns nil: the matrix is gathered and ReadBoard returns nil.
WaitGather ==
    /\ proc = "running" /\ pc = "Wait"
    /\ AllDone
    /\ g.err = NoErr
    /\ g' = [g EXCEPT !.cancelled = TRUE]
    /\ dash' = [dash EXCEPT !.Results =
                  [nil |-> FALSE,
                   rows |-> [i \in 1..Len(dash.Builders) |->
                                ResultsRow(dashMap[i], heap[dashMap[i]])]]]
    /\ heap' = [id \in DOMAIN heap |->
                  IF \E i \in 1..Len(dashMap) : dashMap[i] = id
                  THEN StampMap(heap[id], dash.Commits) ELSE heap[id]]
    /\ rbErr' = NoErr
    /\ pc' = "Returned"
    /\ UNCHANGED <<proc, nProc, flagBuilder, lc, lb, served>>
    /\ UNCHANGED <<loopI, dashMap, unit, launched, errLog>>
    /\ UNCHANGED mainVars
    /\ UNCHANGED wasmVars

\* ------------------------------------------------------------------ main
\* shortHash on the hashes in use, none longer than 8 characters.
ShortHash(h) == h

\* *p of a non-nil *BuildResult.
Deref(p) == heap[p.map][p.key]

\* The line with the builder's name whatever the number of builders.
CsvLineWithBuilder(r, b, rr) ==
    [hash |-> ShortHash(r.Commit),
     time |-> r.Time,
     builder |-> <<b.Name>>,
     status |-> rr.status,
     pass |-> IF rr.status = "PASS" THEN <<rr.dur>> ELSE <<>>,
     fail |-> IF rr.status = "PASS" THEN <<>> ELSE <<rr.dur>>]

\* The line with every duration in the field of the passes.
CsvLineOneField(r, b, rr) ==
    [hash |-> ShortHash(r.Commit),
     time |-> r.Time,
     builder |-> IF Len(dash.Builders) > 1 THEN <<b.Name>> ELSE <<>>,
     status |-> rr.status,
     pass |-> <<rr.dur>>,
     fail |-> <<>>]

\* The line printed for test result rr of cell r in builder b's row.
CsvLine(r, b, rr) ==
    [hash |-> ShortHash(r.Commit),
     time |-> r.Time,
     builder |-> IF Len(dash.Builders) > 1 THEN <<b.Name>> ELSE <<>>,
     status |-> rr.status,
     pass |-> IF rr.status = "PASS" THEN <<rr.dur>> ELSE <<>>,
     fail |-> IF rr.status = "PASS" THEN <<>> ELSE <<rr.dur>>]

RECURSIVE CsvLines(_, _, _)
CsvLines(r, b, results) ==
    IF results = <<>> THEN <<>>
    ELSE (IF Head(results).status = "SKIP" THEN <<>>
          ELSE <<CsvLine(r, b, Head(results))>>)
         \o CsvLines(r, b, Tail(results))

\* Whether dash.Results[i] is in range.
HasRow(i) == i <= Len(dash.Results.rows)

\* main drops what ReadBoard returned and goes on to the loops.
MainAfterReadBoard ==
    /\ proc = "running" /\ pc = "Returned"
    /\ pc' = "Extract"
    /\ UNCHANGED <<proc, nProc, flagBuilder, dash, lc, lb, served, rbErr>>
    /\ UNCHANGED readBoardVars /\ UNCHANGED mainVars
    /\ UNCHANGED wasmVars

\* The loops are over: main returns.
MainExit ==
    /\ proc = "running" /\ pc = "Extract"
    /\ ext.i > Len(dash.Builders)
    /\ proc' = "exit"
    /\ UNCHANGED <<pc, nProc, flagBuilder, dash, lc, lb, served, rbErr>>
    /\ UNCHANGED readBoardVars /\ UNCHANGED mainVars
    /\ UNCHANGED wasmVars

\* dash.Results[i] on a nil or too short Results: index out of range.
MainPanic ==
    /\ proc = "running" /\ pc = "Extract"
    /\ ext.i <= Len(dash.Builders)
    /\ ~HasRow(ext.i)
    /\ proc' = "panic"
    /\ UNCHANGED <<pc, nProc, flagBuilder, dash, lc, lb, served, rbErr>>
    /\ UNCHANGED readBoardVars /\ UNCHANGED mainVars
    /\ UNCHANGED wasmVars

\* The row is over, or the cell is nil: on to the next one.
MainSkip ==
    /\ proc = "running" /\ pc = "Extract"
    /\ ext.i <= Len(dash.Builders)
    /\ HasRow(ext.i)
    /\ IF ext.j > Len(dash.Results.rows[ext.i])
       THEN ext' = [i |-> ext.i + 1, j |-> 1]
       ELSE /\ dash.Results.rows[ext.i][ext.j] = NilPtr
            /\ ext' = [ext EXCEPT !.j = ext.j + 1]
    /\ UNCHANGED <<proc, pc, nProc, flagBuilder, dash, lc, lb, served, rbErr>>
    /\ UNCHANGED readBoardVars /\ UNCHANGED <<queries, out>>
    /\ UNCHANGED wasmVars

\* main starts a query at every cell, waiting for no answer.
NeverInCall == FALSE

\* main is inside QueryTestResults: the query sent last has no answer yet.
InCall ==
    IF queries = <<>> THEN FALSE ELSE ~queries[Len(queries)].answered

\* The history of queries once the one in flight is answered.
AnswerLast(err, results) ==
    [queries EXCEPT ![Len(queries)] =
        [@ EXCEPT !.err = err, !.results = results, !.answered = TRUE]]

\* A non-nil cell: main calls QueryTestResults for the cell's invocation and
\* waits for the answer.
MainQuerySend ==
    /\ proc = "running" /\ pc = "Extract"
    /\ ~InCall
    /\ ext.i <= Len(dash.Builders)
    /\ HasRow(ext.i)
    /\ ext.j <= Len(dash.Results.rows[ext.i])
    /\ dash.Results.rows[ext.i][ext.j] # NilPtr
    /\ queries' = Append(queries,
           [invocation |-> Deref(dash.Results.rows[ext.i][ext.j]).InvocationID,
            err |-> NoErr, results |-> <<>>, answered |-> FALSE])
    /\ UNCHANGED <<proc, pc, nProc, flagBuilder, dash, lc, lb, served, rbErr>>
    /\ UNCHANGED readBoardVars /\ UNCHANGED <<ext, out>>
    /\ UNCHANGED wasmVars

\* QueryTestResults returns the results: a line per result not skipped, and
\* on to the next cell.
MainQuery(Results) ==
    /\ proc = "running" /\ pc = "Extract"
    /\ InCall
    /\ LET r == Deref(dash.Results.rows[ext.i][ext.j]) IN
         /\ \E results \in Results :
              /\ queries' = AnswerLast(NoErr, results)
              /\ out' = out \o CsvLines(r, dash.Builders[ext.i], results)
    /\ ext' = [ext EXCEPT !.j = ext.j + 1]
    /\ UNCHANGED <<proc, pc, nProc, flagBuilder, dash, lc, lb, served, rbErr>>
    /\ UNCHANGED readBoardVars
    /\ UNCHANGED wasmVars

\* QueryTestResults returns an error: log.Fatal.
MainQueryFail ==
    /\ proc = "running" /\ pc = "Extract"
    /\ InCall
    /\ queries' = AnswerLast(ErrQuery, <<>>)
    /\ proc' = "fatal"
    /\ UNCHANGED <<pc, nProc, flagBuilder, dash, lc, lb, served, rbErr>>
    /\ UNCHANGED readBoardVars /\ UNCHANGED <<ext, out>>
    /\ UNCHANGED wasmVars

\* ------------------------------------------------- the wasmexport test
\* x % m of Go on integers: the remainder has the sign of x.
GoRem(x, m) == IF x >= 0 THEN x % m ELSE 0 - ((0 - x) % m)

\* A call of fn(x) that has just begun.
Frame(fn, x) == [fn |-> fn, x |-> x, at |-> "start", val |-> 0]

\* The innermost call in progress.
Top == stack[Len(stack)]

\* Whether the innermost call in progress is one of fn at position at.
TopAt(fn, at) ==
    IF stack = <<>> THEN FALSE ELSE Top.fn = fn /\ Top.at = at

\* The stack once the innermost call has made call f and waits for it at
\* position at.
PushCall(at, f) ==
    Append([stack EXCEPT ![Len(stack)].at = at], f)

\* The stack once the innermost call has returned.
Pop == SubSeq(stack, 1, Len(stack) - 1)

Called(f) == [ev |-> "call", fn |-> f.fn, x |-> f.x]
Returned(f) == [ev |-> "return", fn |-> f.fn, x |-> f.x]

\* float64(a) + float64(b) + c + float64(d) + 100 for the arguments of I's
\* call E(20, 3, 0.4, 0.05), in thousandths.
ESum == 20000 + 3000 + 400 + 50 + 100000

\* int64(v * 100), v in thousandths: the conversion truncates.
FValue(v) == (v * 100) \div 1000

\* G(x) calls G(x - 1) when x is even and J(x - 1) when it is not.
CallOfG(x) == IF GoRem(x, 2) = 0 THEN Frame("G", x - 1) ELSE Frame("J", x - 1)

\* A J that calls G whatever x is.
JAlwaysCallsG(x) == <<Frame("G", x)>>

\* J(x) calls G(x) when x > 0, and nothing otherwise.
CallOfJ(x) == IF x > 0 THEN <<Frame("G", x)>> ELSE <<>>

\* The host calls an export of the initialized module: I(), as main does,
\* or G(x).
HostCall ==
    /\ stack = <<>> /\ trace = <<>>
    /\ \E f \in {Frame("I", 0)} \cup {Frame("G", x) : x \in 0..MaxArg} :
         /\ stack' = <<f>>
         /\ trace' = <<Called(f)>>
    /\ UNCHANGED sender /\ UNCHANGED luciVars

\* I: E(20, 3, 0.4, 0.05)
ICallsE ==
    /\ TopAt("I", "start")
    /\ stack' = PushCall("E", Frame("E", 0))
    /\ trace' = Append(trace, Called(Frame("E", 0)))
    /\ UNCHANGED sender /\ UNCHANGED luciVars

\* I: r := F() * 2, the call.
ICallsF ==
    /\ TopAt("I", "E")
    /\ stack' = PushCall("F", Frame("F", 0))
    /\ trace' = Append(trace, Called(Frame("F", 0)))
    /\ UNCHANGED sender /\ UNCHANGED luciVars

\* I: r := F() * 2, the product, then G(4).
ICallsG ==
    /\ TopAt("I", "F")
    /\ stack' = Append([stack EXCEPT ![Len(stack)] =
                           [@ EXCEPT !.at = "G", !.val = @ * 2]],
                       Frame("G", 4))
    /\ trace' = Append(trace, Called(Frame("G", 4)))
    /\ UNCHANGED sender /\ UNCHANGED luciVars

\* I returns r.
IEnds ==
    /\ TopAt("I", "G")
    /\ stack' = Pop
    /\ trace' = Append(trace, Returned(Top))
    /\ UNCHANGED sender /\ UNCHANGED luciVars

\* E: go func() { ch <- ... }()
ESpawns ==
    /\ TopAt("E", "start")
    /\ sender' = [st |-> "runnable", val |-> ESum]
    /\ stack' = [stack EXCEPT ![Len(stack)].at = "spawned"]
    /\ UNCHANGED trace /\ UNCHANGED luciVars

\* The goroutine runs up to its send, when the goroutine of the export
\* yields (in E's PrintStack, stack growth or GC) or is blocked in F: it
\* hands its value to a receiver that waits, and waits otherwise, ch being
\* unbuffered.
SenderRuns ==
    /\ sender.st = "runnable"
    /\ TopAt("E", "spawned") \/ TopAt("F", "blocked")
    /\ IF TopAt("F", "blocked")
       THEN /\ sender' = [sender EXCEPT !.st = "done"]
            /\ stack' = [stack EXCEPT ![Len(stack)] =
                            [@ EXCEPT !.at = "received", !.val = sender.val]]
       ELSE /\ sender' = [sender EXCEPT !.st = "blocked"]
            /\ UNCHANGED stack
    /\ UNCHANGED trace /\ UNCHANGED luciVars

\* E returns.
EEnds ==
    /\ TopAt("E", "spawned")
    /\ stack' = Pop
    /\ trace' = Append(trace, Returned(Top))
    /\ UNCHANGED sender /\ UNCHANGED luciVars

\* F: <-ch takes the value of a sender that waits, and waits otherwise.
FReceives ==
    /\ TopAt("F", "start")
    /\ IF sender.st = "blocked"
       THEN /\ sender' = [sender EXCEPT !.st = "done"]
            /\ stack' = [stack EXCEPT ![Len(stack)] =
                            [@ EXCEPT !.at = "received", !.val = sender.val]]
       ELSE /\ stack' = [stack EXCEPT ![Len(stack)].at = "blocked"]
            /\ UNCHANGED sender
    /\ UNCHANGED trace /\ UNCHANGED luciVars

\* F returns int64(<-ch * 100) to its caller.
FEnds ==
    /\ TopAt("F", "received")
    /\ stack' = [Pop EXCEPT ![Len(stack) - 1].val = FValue(Top.val)]
    /\ trace' = Append(trace, Returned(Top))
    /\ UNCHANGED sender /\ UNCHANGED luciVars

\* G: the call of G(x - 1) or of J(x - 1), the stack having room for it.
GCalls ==
    /\ TopAt("G", "start")
    /\ Len(stack) < MaxDepth
    /\ stack' = PushCall("called", CallOfG(Top.x))
    /\ trace' = Append(trace, Called(CallOfG(Top.x)))
    /\ UNCHANGED sender /\ UNCHANGED luciVars

\* G returns.
GEnds ==
    /\ TopAt("G", "called")
    /\ stack' = Pop
    /\ trace' = Append(trace, Returned(Top))
    /\ UNCHANGED sender /\ UNCHANGED luciVars

\* J: the call of G(x) if x > 0, the stack having room for it.
JCalls ==
    /\ TopAt("J", "start")
    /\ IF CallOfJ(Top.x) = <<>>
       THEN /\ stack' = [stack EXCEPT ![Len(stack)].at = "called"]
            /\ UNCHANGED trace
       ELSE /\ Len(stack) < MaxDepth
            /\ stack' = PushCall("called", CallOfJ(Top.x)[1])
            /\ trace' = Append(trace, Called(CallOfJ(Top.x)[1]))
    /\ UNCHANGED sender /\ UNCHANGED luciVars

\* J returns.
JEnds ==
    /\ TopAt("J", "called")
    /\ stack' = Pop
    /\ trace' = Append(trace, Returned(Top))
    /\ UNCHANGED sender /\ UNCHANGED luciVars

\* --------------------------------------------------------- specifications
\* The responses to a paged request after the page of token `token`: a page
\* of Pages and a next page token, the last of at most MaxPages pages having
\* none.
Paged(Pages, token) ==
    {[items |-> p, next |-> n] :
        p \in Pages, n \in {NoToken} \cup {t \in {token + 1} : t < MaxPages}}

\* The responses of a listing that has one page.
OnePage(Pages) == {[items |-> p, next |-> NoToken] : p \in Pages}

\* A source log of up to MaxCommits commits.
LogResponses ==
    Paged(SeqsUpTo(CommitUniverse, MaxCommits - Len(lc.commits)), lc.pageToken)

\* A source log of one commit at most.
ShortLogResponses ==
    OnePage({<<>>} \cup {<<c>> : c \in CommitUniverse})

\* A registry of up to MaxBuilders builders, listed by ascending name.
BoardRegistry ==
    Paged(SortedRegistryPages(MaxBuilders, served, dash.Repo, dash.GoBranch),
          lb.pageToken)

\* A registry of up to two builders.
PairRegistry ==
    Paged(RegistryPages(2, served, dash.Repo, dash.GoBranch), lb.pageToken)

\* A registry of one builder at most.
SingleRegistry ==
    OnePage(RegistryPages(1, served, dash.Repo, dash.GoBranch))

\* A build search that finds one build at most.
BoardSearch(u) ==
    OnePage({<<>>} \cup {<<b>> : b \in BoardBuilds(u.builder.Name, dash.Repo)})

\* A build search that finds up to MaxBuilds builds, on one page.
RichSearch(u) ==
    OnePage(SeqsUpTo(RichBuilds(u.builder.Name, dash.Repo), MaxBuilds))

\* A source log served in pages of one commit at most.
PagedLog ==
    Paged({<<>>} \cup {<<c>> : c \in CommitUniverse}, lc.pageToken)

\* A registry of one builder at most, in pages.
PagedRegistry ==
    Paged(RegistryPages(1, served, dash.Repo, dash.GoBranch), lb.pageToken)

\* A build search served in pages of one build at most.
PagedSearch(u) ==
    Paged({<<>>} \cup {<<b>> : b \in BoardBuilds(u.builder.Name, dash.Repo)},
          u.pageToken)

\* A build search that finds one build, of any links and logs.
LogSearch(u) ==
    OnePage({<<b>> : b \in LogBuilds(u.builder.Name, dash.Repo)})

\* A source log of up to two commits, on one page.
CellLogResponses == OnePage(SeqsUpTo(CommitUniverse, 2))

\* A registry of up to two builders, on one page.
CellRegistry == OnePage(RegistryPages(2, served, dash.Repo, dash.GoBranch))

\* A build search that finds up to two builds, on one page.
CellSearch(u) ==
    OnePage(SeqsUpTo(CellBuilds(u.builder.Name, dash.Repo), 2))

\* A build search that finds one build, of any source entries.
SourceSearch(u) ==
    OnePage({<<b>> : b \in SourceBuilds(u.builder.Name, dash.Repo)})

\* A build search that finds one build, of any steps.
StepSearch(u) ==
    OnePage({<<b>> : b \in StepBuilds(u.builder.Name, dash.Repo)})

\* A source log of the one commit h1.
OneCommitLog == OnePage({<<c>> : c \in {x \in CommitUniverse : x.Hash = "h1"}})

\* A registry of up to MaxBuilders builders of the configuration asked for,
\* listed by ascending name on one page.
MatchingRegistry ==
    OnePage({page \in SortedRegistryPages(MaxBuilders, served, dash.Repo,
                                          dash.GoBranch) :
                \A i \in 1..Len(page) :
                    page[i].properties = [valid |-> TRUE,
                                          project |-> dash.Repo,
                                          go_branch |-> dash.GoBranch]})

\* The whole program on a board of up to MaxBuilders builders.
Next ==
    \/ ListCommitsPage(ShortLogResponses)
    \/ ListCommitsFail
    \/ ReadBoardCommits
    \/ ListBuildersPage(BoardRegistry)
    \/ ListBuildersFail
    \/ ReadBoardBuilders
    \/ LoopBody
    \/ GoUnit
    \/ \E i \in 1..MaxBuilders : UnitGetBuildsPage(i, BoardSearch(unit[i]))
    \/ \E i \in 1..MaxBuilders : UnitGetBuildsFail(i)
    \/ \E i \in 1..MaxBuilders : UnitProcess(i)
    \/ \E i \in 1..MaxBuilders : UnitReturn(i)
    \/ WaitErr
    \/ WaitGather
    \/ MainAfterReadBoard
    \/ MainExit
    \/ MainPanic
    \/ MainSkip
    \/ MainQuerySend
    \/ MainQuery({<<[status |-> "PASS", dur |-> 1]>>})
    \/ MainQueryFail

\* The run of a repository's master branch.
OfMaster == dash.Repo # "" /\ dash.GoBranch = "master"

InitBoard == Init /\ OfMaster /\ dash.Repo = "go" /\ flagBuilder = ""

Spec == InitBoard /\ [][Next]_vars

\* The whole program on two builders and a log of up to MaxCommits commits.
NextGather ==
    \/ ListCommitsPage(LogResponses)
    \/ ListCommitsFail
    \/ ReadBoardCommits
    \/ ListBuildersPage(PairRegistry)
    \/ ListBuildersFail
    \/ ReadBoardBuilders
    \/ LoopBody
    \/ GoUnit
    \/ \E i \in 1..2 : UnitGetBuildsPage(i, BoardSearch(unit[i]))
    \/ \E i \in 1..2 : UnitGetBuildsFail(i)
    \/ \E i \in 1..2 : UnitProcess(i)
    \/ \E i \in 1..2 : UnitReturn(i)
    \/ WaitErr
    \/ WaitGather
    \/ MainAfterReadBoard
    \/ MainExit
    \/ MainPanic
    \/ MainSkip
    \/ MainQuerySend
    \/ MainQuery({<<[status |-> "PASS", dur |-> 1]>>})
    \/ MainQueryFail

InitGather == Init /\ OfMaster /\ nProc = 1

SpecGather == InitGather /\ [][NextGather]_vars

\* The whole program on one builder with up to MaxBuilds builds.
NextReconcile ==
    \/ ListCommitsPage(ShortLogResponses)
    \/ ListCommitsFail
    \/ ReadBoardCommits
    \/ ListBuildersPage(SingleRegistry)
    \/ ListBuildersFail
    \/ ReadBoardBuilders
    \/ LoopBody
    \/ GoUnit
    \/ UnitGetBuildsPage(1, RichSearch(unit[1]))
    \/ UnitGetBuildsFail(1)
    \/ UnitProcess(1)
    \/ UnitReturn(1)
    \/ WaitErr
    \/ WaitGather
    \/ MainAfterReadBoard
    \/ MainExit
    \/ MainPanic
    \/ MainSkip
    \/ MainQuerySend
    \/ MainQuery({<<[status |-> "PASS", dur |-> 1]>>})
    \/ MainQueryFail

InitReconcile == Init /\ OfMaster /\ nProc = 1 /\ flagBuilder = ""

SpecReconcile == InitReconcile /\ [][NextReconcile]_vars

\* The whole program on a registry of two builders, for every choice of
\* the flags -repo, -branch and -builder.
NextRegistry ==
    \/ ListCommitsPage(ShortLogResponses)
    \/ ListCommitsFail
    \/ ReadBoardCommits
    \/ ListBuildersPage(PairRegistry)
    \/ ListBuildersFail
    \/ ReadBoardBuilders
    \/ LoopBody
    \/ GoUnit
    \/ \E i \in 1..2 : UnitGetBuildsPage(i, BoardSearch(unit[i]))
    \/ \E i \in 1..2 : UnitGetBuildsFail(i)
    \/ \E i \in 1..2 : UnitProcess(i)
    \/ \E i \in 1..2 : UnitReturn(i)
    \/ WaitErr
    \/ WaitGather
    \/ MainAfterReadBoard
    \/ MainExit
    \/ MainPanic
    \/ MainSkip
    \/ MainQuerySend
    \/ MainQuery({<<[status |-> "PASS", dur |-> 1]>>})
    \/ MainQueryFail

InitRegistry == Init /\ nProc = 1 /\ dash.Repo \in {"", "go"}

SpecRegistry == InitRegistry /\ [][NextRegistry]_vars

\* The whole program as main runs it (one unit at a time), every listing
\* served in pages.
NextPaging ==
    \/ ListCommitsPage(PagedLog)
    \/ ListCommitsFail
    \/ ReadBoardCommits
    \/ ListBuildersPage(PagedRegistry)
    \/ ListBuildersFail
    \/ ReadBoardBuilders
    \/ LoopBody
    \/ GoUnit
    \/ UnitGetBuildsPage(1, PagedSearch(unit[1]))
    \/ UnitGetBuildsFail(1)
    \/ UnitProcess(1)
    \/ UnitReturn(1)
    \/ WaitErr
    \/ WaitGather
    \/ MainAfterReadBoard
    \/ MainExit
    \/ MainPanic
    \/ MainSkip
    \/ MainQuerySend
    \/ MainQuery({<<[status |-> "PASS", dur |-> 1]>>})
    \/ MainQueryFail

InitPaging ==
    Init /\ OfMaster /\ nProc = 1 /\ flagBuilder = "" /\ dash.Repo = "go"

\* The program is one thread of control at a time (the main goroutine waits
\* in g.Wait while the unit runs) and every request is answered, with a
\* response or an error: a step that can be taken is taken.
SpecPaging == InitPaging /\ [][NextPaging]_vars /\ WF_vars(NextPaging)

\* The whole program on one builder with one build, of any failure links
\* and output logs.
NextLogs ==
    \/ ListCommitsPage(ShortLogResponses)
    \/ ListCommitsFail
    \/ ReadBoardCommits
    \/ ListBuildersPage(SingleRegistry)
    \/ ListBuildersFail
    \/ ReadBoardBuilders
    \/ LoopBody
    \/ GoUnit
    \/ UnitGetBuildsPage(1, LogSearch(unit[1]))
    \/ UnitGetBuildsFail(1)
    \/ UnitProcess(1)
    \/ UnitReturn(1)
    \/ WaitErr
    \/ WaitGather
    \/ MainAfterReadBoard
    \/ MainExit
    \/ MainPanic
    \/ MainSkip
    \/ MainQuerySend
    \/ MainQuery({<<[status |-> "PASS", dur |-> 1]>>})
    \/ MainQueryFail

InitLogs == Init /\ OfMaster /\ nProc = 1 /\ flagBuilder = "" /\ dash.Repo = "go"

SpecLogs == InitLogs /\ [][NextLogs]_vars

\* The whole program on a matrix of up to two builders and two commits.
NextExtract ==
    \/ ListCommitsPage(CellLogResponses)
    \/ ListCommitsFail
    \/ ReadBoardCommits
    \/ ListBuildersPage(CellRegistry)
    \/ ListBuildersFail
    \/ ReadBoardBuilders
    \/ LoopBody
    \/ GoUnit
    \/ \E i \in 1..2 : UnitGetBuildsPage(i, CellSearch(unit[i]))
    \/ \E i \in 1..2 : UnitGetBuildsFail(i)
    \/ \E i \in 1..2 : UnitProcess(i)
    \/ \E i \in 1..2 : UnitReturn(i)
    \/ WaitErr
    \/ WaitGather
    \/ MainAfterReadBoard
    \/ MainExit
    \/ MainPanic
    \/ MainSkip
    \/ MainQuerySend
    \/ MainQuery(ResultUniverse)
    \/ MainQueryFail

InitExtract ==
    Init /\ OfMaster /\ nProc = 1 /\ flagBuilder = "" /\ dash.Repo = "go"

SpecExtract == InitExtract /\ [][NextExtract]_vars

\* The whole program on one builder with one build, of any source entries,
\* for the repositories "go" and "tools".
NextSources ==
    \/ ListCommitsPage(ShortLogResponses)
    \/ ListCommitsFail
    \/ ReadBoardCommits
    \/ ListBuildersPage(SingleRegistry)
    \/ ListBuildersFail
    \/ ReadBoardBuilders
    \/ LoopBody
    \/ GoUnit
    \/ UnitGetBuildsPage(1, SourceSearch(unit[1]))
    \/ UnitGetBuildsFail(1)
    \/ UnitProcess(1)
    \/ UnitReturn(1)
    \/ WaitErr
    \/ WaitGather
    \/ MainAfterReadBoard
    \/ MainExit
    \/ MainPanic
    \/ MainSkip
    \/ MainQuerySend
    \/ MainQuery({<<[status |-> "PASS", dur |-> 1]>>})
    \/ MainQueryFail

InitSources == Init /\ OfMaster /\ nProc = 1 /\ flagBuilder = ""

SpecSources == InitSources /\ [][NextSources]_vars

\* The whole program on one builder with one build, of any steps.
NextSteps ==
    \/ ListCommitsPage(ShortLogResponses)
    \/ ListCommitsFail
    \/ ReadBoardCommits
    \/ ListBuildersPage(SingleRegistry)
    \/ ListBuildersFail
    \/ ReadBoardBuilders
    \/ LoopBody
    \/ GoUnit
    \/ UnitGetBuildsPage(1, StepSearch(unit[1]))
    \/ UnitGetBuildsFail(1)
    \/ UnitProcess(1)
    \/ UnitReturn(1)
    \/ WaitErr
    \/ WaitGather
    \/ MainAfterReadBoard
    \/ MainExit
    \/ MainPanic
    \/ MainSkip
    \/ MainQuerySend
    \/ MainQuery({<<[status |-> "PASS", dur |-> 1]>>})
    \/ MainQueryFail

InitSteps == Init /\ OfMaster /\ nProc = 1 /\ flagBuilder = "" /\ dash.Repo = "go"

SpecSteps == InitSteps /\ [][NextSteps]_vars

\* The whole program on one builder, the source log served in pages, for
\* every choice of the flags -repo and -branch.
NextBranches ==
    \/ ListCommitsPage(PagedLog)
    \/ ListCommitsFail
    \/ ReadBoardCommits
    \/ ListBuildersPage(SingleRegistry)
    \/ ListBuildersFail
    \/ ReadBoardBuilders
    \/ LoopBody
    \/ GoUnit
    \/ UnitGetBuildsPage(1, BoardSearch(unit[1]))
    \/ UnitGetBuildsFail(1)
    \/ UnitProcess(1)
    \/ UnitReturn(1)
    \/ WaitErr
    \/ WaitGather
    \/ MainAfterReadBoard
    \/ MainExit
    \/ MainPanic
    \/ MainSkip
    \/ MainQuerySend
    \/ MainQuery({<<[status |-> "PASS", dur |-> 1]>>})
    \/ MainQueryFail

InitBranches == Init /\ nProc = 1 /\ flagBuilder = ""

SpecBranches == InitBranches /\ [][NextBranches]_vars

\* The whole program on up to MaxBuilders builders that ListBuilders keeps,
\* with nProc from 1 to MaxProc.
NextLimit ==
    \/ ListCommitsPage(OneCommitLog)
    \/ ListCommitsFail
    \/ ReadBoardCommits
    \/ ListBuildersPage(MatchingRegistry)
    \/ ListBuildersFail
    \/ ReadBoardBuilders
    \/ LoopBody
    \/ GoUnit
    \/ \E i \in 1..MaxBuilders : UnitGetBuildsPage(i, BoardSearch(unit[i]))
    \/ \E i \in 1..MaxBuilders : UnitGetBuildsFail(i)
    \/ \E i \in 1..MaxBuilders : UnitProcess(i)
    \/ \E i \in 1..MaxBuilders : UnitReturn(i)
    \/ WaitErr
    \/ WaitGather
    \/ MainAfterReadBoard
    \/ MainExit
    \/ MainPanic
    \/ MainSkip
    \/ MainQuerySend
    \/ MainQuery({<<[status |-> "PASS", dur |-> 1]>>})
    \/ MainQueryFail

\* Every goroutine that can take a step takes one: the scheduler runs the
\* runnable goroutines, and every request is answered, with a response or
\* an error.
SpecLimit == InitBoard /\ [][NextLimit]_vars /\ WF_vars(NextLimit)

\* The wasmexport test in library mode, from the call of an export of the
\* initialized module on.
NextWasm ==
    \/ HostCall
    \/ ICallsE
    \/ ICallsF
    \/ ICallsG
    \/ IEnds
    \/ ESpawns
    \/ SenderRuns
    \/ EEnds
    \/ FReceives
    \/ FEnds
    \/ GCalls
    \/ GEnds
    \/ JCalls
    \/ JEnds

\* The one goroutine that can run runs.
InitWasm == InitBoard /\ nProc = 1

SpecWasm == InitWasm /\ [][NextWasm]_vars /\ WF_vars(NextWasm)

\* ----------------------------------------------------------------- claims
\* The commit hash the loop resolves for raw build b.
CommitOf(b) == ResolveCommits(b, dash.Repo).commit

\* The builds unit u's loop has gone past, among those of commit hash h.
PassedFor(u, h) == {j \in 1..(u.k - 1) : CommitOf(u.builds[j]) = h}

\* The commit hashes the builds of the build search name.
BuildHashes == {"h1", "h2"}

ReadBoardOk == pc \in {"Returned", "Extract"} /\ rbErr = NoErr

\* s in reverse order.
Reversed(s) == [i \in 1..Len(s) |-> s[Len(s) + 1 - i]]

\* Unit u has gone through a list of exactly two builds of one commit.
PairDone(u) ==
    /\ u.pc = "loop" /\ Len(u.builds) = 2 /\ u.k = 3
    /\ CommitOf(u.builds[1]) # ""
    /\ CommitOf(u.builds[1]) = CommitOf(u.builds[2])

\* A build whose result-store host or builder name is not the expected one.
Mismatch(b, bld) == b.hostname # resultDBHost \/ b.builder # bld.Name

\* C1: while a builder's unit goes through its builds, its map holds, for
\* each commit hash, no result when no build of that hash has been passed and
\* otherwise one result, of that hash, whose BuildTime is the greatest end
\* time of the builds of that hash passed so far.
C1_LatestBuildKept ==
    \A i \in 1..Len(unit) :
        unit[i].pc = "loop" =>
            LET u == unit[i]
                m == heap[u.buildMap]
            IN /\ DOMAIN m \subseteq BuildHashes
               /\ \A h \in BuildHashes :
                    IF PassedFor(u, h) = {} THEN h \notin DOMAIN m
                    ELSE /\ h \in DOMAIN m
                         /\ m[h].Commit = h
                         /\ \A j \in PassedFor(u, h) :
                              u.builds[j].endTime <= m[h].BuildTime
                         /\ \E j \in PassedFor(u, h) :
                              /\ u.builds[j].endTime = m[h].BuildTime
                              /\ u.builds[j].id = m[h].ID

\* A unit has passed two builds of one commit, the later-ended one first.
C1_Witness ==
    \E i \in 1..Len(unit) :
        /\ PairDone(unit[i])
        /\ unit[i].builds[2].endTime < unit[i].builds[1].endTime
        /\ heap[unit[i].buildMap][CommitOf(unit[i].builds[1])].ID
               = unit[i].builds[1].id

\* C2 as claimed: the map a unit has after a pair of builds of one commit is
\* what the loop makes of the pair in the other order, whatever the end
\* times.
C2_OrderIndependent ==
    \A i \in 1..Len(unit) :
        PairDone(unit[i]) =>
            Reconcile(EmptyMap, Reversed(unit[i].builds), unit[i].builder,
                      dash.Repo)
                = [fatal |-> FALSE, m |-> heap[unit[i].buildMap]]

\* C2 amended: a unit that has gone past a pair of builds of one commit with
\* different end times holds the later-ended one; the other order ends in
\* log.Fatalf exactly when the earlier-ended build has a host or builder
\* name other than the expected one, and gives the same map otherwise.  With
\* equal end times the map holds the build presented last.
C2_OrderIndependentUnlessTie ==
    \A i \in 1..Len(unit) :
        PairDone(unit[i]) =>
            LET u == unit[i]
                b1 == u.builds[1]
                b2 == u.builds[2]
                kept == heap[u.buildMap][CommitOf(b1)]
                other == Reconcile(EmptyMap, Reversed(u.builds), u.builder,
                                   dash.Repo)
            IN IF b1.endTime = b2.endTime
               THEN kept.ID = b2.id
               ELSE /\ kept.ID = (IF b1.endTime > b2.endTime THEN b1.id
                                  ELSE b2.id)
                    /\ other.fatal <=>
                         (b2.endTime < b1.endTime /\ Mismatch(b2, u.builder))
                    /\ ~other.fatal => other.m = heap[u.buildMap]

\* A unit has passed a pair of builds of one commit, the earlier-ended one
\* last, and the map holds the first.
C2_Witness ==
    \E i \in 1..Len(unit) :
        /\ PairDone(unit[i])
        /\ unit[i].builds[2].endTime < unit[i].builds[1].endTime
        /\ unit[i].builds[1].status # unit[i].builds[2].status
        /\ heap[unit[i].buildMap][CommitOf(unit[i].builds[1])].Status
               = unit[i].builds[1].status

\* Unit i takes the step that passes a build whose commit has a stored
\* result with the same end time.
TieStep(i) ==
    /\ i <= Len(unit) /\ unit[i].pc = "loop" /\ unit[i].k <= Len(unit[i].builds)
    /\ unit'[i].k = unit[i].k + 1
    /\ LET b == unit[i].builds[unit[i].k]
           m == heap[unit[i].buildMap]
       IN /\ CommitOf(b) \in DOMAIN m
          /\ m[CommitOf(b)].BuildTime = b.endTime

\* C3 as claimed: a build that arrives with the end time of the stored
\* result of its commit leaves the stored result in place.
C3_TieKeepsStored ==
    [][\A i \in 1..MaxBuilders :
          TieStep(i) =>
              LET h == CommitOf(unit[i].builds[unit[i].k])
              IN heap'[unit[i].buildMap][h] = heap[unit[i].buildMap][h]]_vars

\* C3 amended: a build that arrives with the end time of the stored result
\* of its commit, and is passed, replaces the stored result.
C3_TieReplacesStored ==
    [][\A i \in 1..MaxBuilders :
          TieStep(i) =>
              LET b == unit[i].builds[unit[i].k]
              IN heap'[unit[i].buildMap][CommitOf(b)]
                     = NewBuildResult(b, ResolveCommits(b, dash.Repo),
                                      unit[i].builder)]_vars

\* A unit has passed two builds of one commit and one end time, and the map
\* holds the second.
C3_Witness ==
    \E i \in 1..Len(unit) :
        /\ PairDone(unit[i])
        /\ unit[i].builds[1].endTime = unit[i].builds[2].endTime
        /\ unit[i].builds[1].id # unit[i].builds[2].id
        /\ heap[unit[i].buildMap][CommitOf(unit[i].builds[2])].ID
               = unit[i].builds[2].id

\* C4: after ReadBoard has returned nil, every non-nil cell of row i and
\* column j points to a result of builder i's name, of column j's commit hash
\* and of column j's commit time.
C4_CellsAligned ==
    ReadBoardOk =>
        \A i \in 1..Len(dash.Results.rows) :
            \A j \in 1..Len(dash.Results.rows[i]) :
                dash.Results.rows[i][j] # NilPtr =>
                    /\ i <= Len(dash.Builders) /\ j <= Len(dash.Commits)
                    /\ Deref(dash.Results.rows[i][j]).Builder
                           = dash.Builders[i].Name
                    /\ Deref(dash.Results.rows[i][j]).Commit
                           = dash.Commits[j].Hash
                    /\ Deref(dash.Results.rows[i][j]).Time
                           = dash.Commits[j].Time

\* ReadBoard has returned nil with two builders and two columns, the second
\* builder having a result whose build ended at another time than its commit.
C4_Witness ==
    /\ ReadBoardOk
    /\ Len(dash.Builders) = 2 /\ Len(dash.Commits) = 2
    /\ dash.Results.rows[2][2] # NilPtr
    /\ Deref(dash.Results.rows[2][2]).BuildTime
           # Deref(dash.Results.rows[2][2]).Time

\* C5: after ReadBoard has returned nil, Results has one row per builder and
\* every row has one cell per commit.
C5_MatrixShape ==
    ReadBoardOk =>
        /\ ~dash.Results.nil
        /\ Len(dash.Results.rows) = Len(dash.Builders)
        /\ \A i \in 1..Len(dash.Results.rows) :
             Len(dash.Results.rows[i]) = Len(dash.Commits)

\* ReadBoard has returned nil with two builders and two commits, one row
\* having a nil cell and a non-nil one.
C5_Witness ==
    /\ ReadBoardOk
    /\ Len(dash.Builders) = 2 /\ Len(dash.Commits) = 2
    /\ \E i \in 1..2 : /\ dash.Results.rows[i][1] = NilPtr
                       /\ dash.Results.rows[i][2] # NilPtr

\* The units started and not ended.
RunningUnits == {i \in 1..Len(unit) : unit[i].pc # "done"}

\* C6: g.Go is called once per builder, in order, and at most nProc units
\* are started and not ended.
C6_BoundedUnits ==
    /\ Cardinality(RunningUnits) <= nProc
    /\ Len(launched) <= Len(dash.Builders)
    /\ \A n \in 1..Len(launched) : launched[n] = n
    /\ Len(unit) = Len(launched)
    /\ (pc \in {"Wait", "Returned", "Extract"}) =>
           Len(launched) = Len(dash.Builders)

\* nProc units run and the main goroutine is blocked in g.Go for one more.
C6_Witness ==
    /\ nProc = 2 /\ Cardinality(RunningUnits) = 2
    /\ pc = "Go" /\ loopI = 3

\* C7: every unit holds the map of its own slot of dashMap, no two units
\* hold the same map, and Results is gathered from the maps only once every
\* unit has ended.
C7_OwnMapOnly ==
    /\ \A i \in 1..Len(unit) : unit[i].buildMap = dashMap[i]
    /\ \A i, j \in 1..Len(unit) :
         i # j => unit[i].buildMap # unit[j].buildMap
    /\ ~dash.Results.nil =>
           /\ RunningUnits = {}
           /\ Len(unit) = Len(dash.Builders)

\* Two units run at once, each having written its map.
C7_Witness ==
    \E i, j \in 1..Len(unit) :
        /\ i # j
        /\ unit[i].pc = "loop" /\ unit[j].pc = "loop"
        /\ heap[unit[i].buildMap] # EmptyMap
        /\ heap[unit[j].buildMap] # EmptyMap

\* C8: once a unit has returned an error the group's context is cancelled
\* and Results stays nil, and what ReadBoard returns is the first error a
\* unit returned.
C8_FirstErrorReturned ==
    errLog # <<>> =>
        /\ g.cancelled
        /\ g.err = errLog[1]
        /\ dash.Results = NilResults
        /\ pc \in {"Returned", "Extract"} => rbErr = errLog[1]

\* ReadBoard has returned the first of two different errors of its units.
C8_Witness ==
    /\ pc = "Returned"
    /\ Len(errLog) >= 2 /\ errLog[2] # errLog[1]
    /\ rbErr = errLog[1]

\* C9 as claimed: once ReadBoard has returned an error, main does not go on
\* to the loops over the matrix.
C9_ErrorIsFatal ==
    (rbErr # NoErr) => pc # "Extract"

\* C10 as claimed: a unit's loop goes past no build that has a commit hash
\* and a result-store host or a builder name other than the expected one.
C10_MismatchIsFatal ==
    \A i \in 1..Len(unit) :
        unit[i].pc = "loop" =>
            \A j \in 1..(unit[i].k - 1) :
                CommitOf(unit[i].builds[j]) # "" =>
                    ~Mismatch(unit[i].builds[j], unit[i].builder)

\* The items of the pages a history of requests was answered with, one page
\* after the other.
RECURSIVE Items(_)
Items(h) == IF h = <<>> THEN <<>> ELSE Head(h).items \o Items(Tail(h))

\* Whether page p holds a commit made strictly before since.
HasOlder(p) == \E n \in 1..Len(p) : p[n].Time < Since

\* The commits of s that come before its first commit made strictly before
\* since.
UpToOlder(s) ==
    IF HasOlder(s)
    THEN SubSeq(s, 1, (CHOOSE n \in 1..Len(s) :
                          /\ s[n].Time < Since
                          /\ \A k \in 1..(n - 1) : s[k].Time >= Since) - 1)
    ELSE s

\* C11: while ListCommits runs and when it returns, its commits are those
\* served before the first commit made strictly before since (a commit made
\* at since is among them); a page was requested only after pages that hold
\* no such commit and have a next page token; and after a page that holds
\* one, ListCommits is at its return, whatever that page's next page token.
C11_HaltsAtFirstOlder ==
    (pc \in {"ListCommits", "ListCommitsDone"} /\ proc = "running") =>
        /\ lc.commits = UpToOlder(Items(lc.sent))
        /\ \A n \in 1..Len(lc.commits) : lc.commits[n].Time >= Since
        /\ \A n \in 1..(Len(lc.sent) - 1) :
             ~HasOlder(lc.sent[n].items) /\ lc.sent[n].next # NoToken
        /\ (lc.sent # <<>> /\ HasOlder(lc.sent[Len(lc.sent)].items)) =>
               pc = "ListCommitsDone"

\* ListCommits is at its return after one page that has a next page token
\* and holds a commit made at since, kept, and then an older one.
C11_Witness ==
    /\ pc = "ListCommitsDone"
    /\ Len(lc.sent) = 1 /\ lc.sent[1].next # NoToken
    /\ Len(lc.sent[1].items) = 2
    /\ lc.sent[1].items[1].Time = Since
    /\ lc.sent[1].items[2].Time < Since
    /\ lc.commits = <<lc.sent[1].items[1]>>

\* Whether the times of s never go up.
Descending(s) == \A n \in 1..(Len(s) - 1) : s[n].Time >= s[n + 1].Time

\* The commits of s made at since or after.
RECURSIVE AtOrAfterSince(_)
AtOrAfterSince(s) ==
    IF s = <<>> THEN <<>>
    ELSE (IF Head(s).Time >= Since THEN <<Head(s)>> ELSE <<>>)
         \o AtOrAfterSince(Tail(s))

\* C12: when the pages served to ListCommits hold commits in descending
\* order of time, ListCommits returns the served commits made at since or
\* after, each once and in the order served, and it has stopped at a page
\* with no next page token or at a commit before since (after which a
\* descending log holds older commits only).
C12_ExactlyTheRecent ==
    (pc = "ListCommitsDone" /\ Descending(Items(lc.sent))) =>
        /\ lc.commits = AtOrAfterSince(Items(lc.sent))
        /\ \/ lc.sent[Len(lc.sent)].next = NoToken
           \/ HasOlder(lc.sent[Len(lc.sent)].items)

\* ListCommits is at its return after two pages in descending order, the
\* first with a commit made at since and the second with an older one.
C12_Witness ==
    /\ pc = "ListCommitsDone"
    /\ Len(lc.sent) = 2
    /\ Len(lc.sent[1].items) = 1 /\ lc.sent[1].items[1].Time = Since
    /\ Len(lc.sent[2].items) = 1 /\ lc.sent[2].items[1].Time < Since
    /\ lc.commits = lc.sent[1].items

\* Whether the requests of history h went along a chain of pages: the first
\* with the empty page token, each next one with the next page token of the
\* response before it, which was no error and had one.
ChainOrder(h) ==
    /\ h # <<>> => h[1].token = NoToken
    /\ \A n \in 1..(Len(h) - 1) :
         /\ h[n].err = NoErr
         /\ h[n].next # NoToken
         /\ h[n + 1].token = h[n].next

\* Whether history h has come to the end of its chain.
ChainOver(h) == h # <<>> /\ h[Len(h)].err = NoErr /\ h[Len(h)].next = NoToken

\* C13: the requests of every listing go along the chain of pages: the
\* first has the empty page token and each next one the next page token of
\* the response before; GetBuilds holds the items of all its pages, one page
\* after the other, and returns them at the end of the chain; ListBuilders
\* holds the builders it keeps of all its pages, in page order until it
\* sorts them at the end of the chain; ListCommits holds the commits of all
\* its pages, in page order, up to the commit that stops it.
C13_PagesInChainOrder ==
    /\ ChainOrder(lc.sent) /\ ChainOrder(lb.sent)
    /\ (pc \in {"ListCommits", "ListCommitsDone"} /\ proc = "running") =>
           lc.commits = UpToOlder(Items(lc.sent))
    /\ pc = "ListBuilders" =>
           /\ lb.builders = FilterBuilders(Items(lb.sent), dash.Repo,
                                           dash.GoBranch, flagBuilder)
           /\ ~ChainOver(lb.sent)
    /\ pc = "ListBuildersDone" =>
           /\ lb.builders = SortByName(FilterBuilders(Items(lb.sent), dash.Repo,
                                                      dash.GoBranch, flagBuilder))
           /\ ChainOver(lb.sent)
    /\ \A i \in 1..Len(unit) :
         /\ ChainOrder(unit[i].sent)
         /\ unit[i].pc \in {"GetBuilds", "loop"} =>
                unit[i].builds = Items(unit[i].sent)
         /\ unit[i].pc = "GetBuilds" => ~ChainOver(unit[i].sent)
         /\ unit[i].pc = "loop" => ChainOver(unit[i].sent)

\* GetBuilds has returned the builds of two pages, one after the other,
\* ListCommits having returned two commits.
C13_Witness ==
    /\ Len(unit) = 1 /\ unit[1].pc = "loop"
    /\ Len(unit[1].sent) = 2
    /\ unit[1].sent[1].items # <<>> /\ unit[1].sent[2].items # <<>>
    /\ unit[1].builds = unit[1].sent[1].items \o unit[1].sent[2].items
    /\ unit[1].sent[2].token = unit[1].sent[1].next
    /\ Len(dash.Commits) = 2

\* Whether history h ends with a request that failed, having had no other
\* and none after it.
FailedLast(h) ==
    /\ h # <<>> /\ h[Len(h)].err # NoErr
    /\ \A n \in 1..(Len(h) - 1) : h[n].err = NoErr

\* C15: a request that failed is the last of its listing.  After one of
\* ListBuilders, ReadBoard has returned its error and dash.Builders is nil;
\* after one of GetBuilds the unit has ended with its error, none of the
\* builds of its earlier pages having reached its map; after one of Log or
\* of QueryTestResults the process has ended in log.Fatal.
C15_ErrorEndsListing ==
    /\ \A n \in 1..Len(lb.sent) : lb.sent[n].err # NoErr =>
         /\ n = Len(lb.sent)
         /\ pc \in {"Returned", "Extract"}
         /\ rbErr = lb.sent[n].err
         /\ dash.Builders = <<>> /\ lb.builders = <<>>
         /\ unit = <<>>
    /\ \A i \in 1..Len(unit) : \A n \in 1..Len(unit[i].sent) :
         unit[i].sent[n].err # NoErr =>
             /\ n = Len(unit[i].sent)
             /\ unit[i].pc = "done" /\ unit[i].builds = <<>>
             /\ heap[unit[i].buildMap] = EmptyMap
             /\ \E k \in 1..Len(errLog) : errLog[k] = unit[i].sent[n].err
    /\ \A n \in 1..Len(lc.sent) : lc.sent[n].err # NoErr =>
         n = Len(lc.sent) /\ proc = "fatal"
    /\ \A n \in 1..Len(queries) : queries[n].err # NoErr =>
         n = Len(queries) /\ proc = "fatal"

\* ReadBoard has returned the error of the second ListBuilders request, the
\* first page having held a builder that ListBuilders kept.
C15_Witness ==
    /\ pc = "Returned"
    /\ Len(lb.sent) = 2 /\ FailedLast(lb.sent)
    /\ FilterBuilders(lb.sent[1].items, dash.Repo, dash.GoBranch, flagBuilder)
           # <<>>
    /\ rbErr = ErrListBuilders

\* Whether the last response of history h is one ListCommits stops at: it
\* has no next page token, or a commit made before since.
LogOver(h) ==
    h # <<>> /\ (h[Len(h)].next = NoToken \/ HasOlder(h[Len(h)].items))

\* Whether a unit is in GetBuilds.
InGetBuilds == \E i \in 1..Len(unit) : unit[i].pc = "GetBuilds"

\* C14: each listing, once begun, comes to an end (it returns, or the
\* process ends in log.Fatal), and it asks for no page after a response with
\* no next page token nor, for ListCommits, after a commit made before since.
C14_ListingsEnd ==
    /\ (pc = "ListCommits") ~> (pc # "ListCommits" \/ proc # "running")
    /\ (pc = "ListBuilders") ~> (pc # "ListBuilders")
    /\ InGetBuilds ~> ~InGetBuilds
    /\ []((pc = "ListCommits" /\ proc = "running") => ~LogOver(lc.sent))
    /\ [](pc = "ListBuilders" => ~ChainOver(lb.sent))
    /\ [](\A i \in 1..Len(unit) :
             unit[i].pc = "GetBuilds" => ~ChainOver(unit[i].sent))

\* GetBuilds has returned after MaxPages pages, the last one empty, and
\* ListCommits had stopped at a commit made before since.
C14_Witness ==
    /\ unit # <<>> /\ unit[1].pc = "loop"
    /\ Len(unit[1].sent) = MaxPages
    /\ unit[1].sent[Len(unit[1].sent)].items = <<>>
    /\ dash.Commits = <<>>

\* Whether ListBuilders is asked for every builder of every configuration.
AllConfigs == dash.Repo = "" /\ dash.GoBranch = ""

\* Whether the configuration JSON of registry entry it is well formed and
\* names the repository and the branch asked for.
ConfigMatches(it) ==
    /\ it.properties.valid
    /\ it.properties.project = dash.Repo
    /\ it.properties.go_branch = dash.GoBranch

\* Whether the -builder flag lets the name through.
NameWanted(name) == flagBuilder = "" \/ name = flagBuilder

\* The names of the builders of sequence s.
NamesOf(s) == {s[n].Name : n \in 1..Len(s)}

\* C16: when ListBuilders returns, its builders are, each once and by
\* ascending name, those of all the pages served that the -builder flag lets
\* through and, unless repo and branch are both empty, whose configuration
\* names the repo and the branch.
C16_ExactlyTheWanted ==
    pc = "ListBuildersDone" =>
        LET all == Items(lb.sent)
            wanted == {n \in 1..Len(all) :
                          /\ AllConfigs \/ ConfigMatches(all[n])
                          /\ NameWanted(all[n].name)}
        IN /\ NamesOf(lb.builders) = {all[n].name : n \in wanted}
           /\ Len(lb.builders) = Cardinality(wanted)
           /\ \A i, j \in 1..Len(lb.builders) :
                i < j => NameIdx(lb.builders[i].Name)
                             < NameIdx(lb.builders[j].Name)

\* ListBuilders returns two builders by ascending name that the registry
\* served the other way round, on two pages, the repo and the branch being
\* named.
C16_Witness ==
    /\ pc = "ListBuildersDone"
    /\ ~AllConfigs /\ flagBuilder = ""
    /\ Len(lb.sent) = 2
    /\ Len(lb.builders) = 2
    /\ Items(lb.sent)[1].name = lb.builders[2].Name

\* Whether every request of history h was answered with a page.
AllAnswered(h) == h # <<>> /\ \A k \in 1..Len(h) : h[k].err = NoErr

\* C17: as long as its requests are answered, ListBuilders goes on or
\* returns with no error, whatever the configuration JSON of the entries
\* served; the entries served after an entry with a malformed or absent
\* configuration are kept or dropped as they would be without it, and the
\* entry itself is among the builders exactly when repo and branch are both
\* empty and the -builder flag lets its name through, with the zero
\* configuration.
C17_MalformedTolerated ==
    AllAnswered(lb.sent) =>
      /\ pc \in {"ListBuilders", "ListBuildersDone"}
      /\ rbErr = NoErr /\ proc = "running"
      /\ \A n \in 1..Len(Items(lb.sent)) :
          LET all == Items(lb.sent) IN
          ~all[n].properties.valid =>
            /\ \A k \in (n + 1)..Len(all) :
                 (all[k].name \in NamesOf(lb.builders))
                     <=> /\ AllConfigs \/ ConfigMatches(all[k])
                         /\ NameWanted(all[k].name)
            /\ (all[n].name \in NamesOf(lb.builders))
                   <=> (AllConfigs /\ NameWanted(all[n].name))
            /\ \A i \in 1..Len(lb.builders) :
                 lb.builders[i].Name = all[n].name =>
                     lb.builders[i].Config = [Repo |-> "", GoBranch |-> ""]

\* ListBuilders returns two builders, repo and branch being empty: one whose
\* configuration JSON is malformed, served first, and one served after it on
\* the next page.
C17_Witness ==
    /\ pc = "ListBuildersDone"
    /\ AllConfigs
    /\ Len(lb.sent) = 2
    /\ Len(lb.sent[1].items) = 1 /\ ~lb.sent[1].items[1].properties.valid
    /\ Len(lb.sent[2].items) = 1 /\ lb.sent[2].items[1].properties.valid
    /\ Len(lb.builders) = 2

\* Unit i is about to pass a build for which no commit hash is resolved.
NoCommitNext(i) ==
    /\ i <= Len(unit) /\ unit[i].pc = "loop" /\ unit[i].k <= Len(unit[i].builds)
    /\ CommitOf(unit[i].builds[unit[i].k]) = ""

\* C18: the step that passes a build with no commit hash resolved leaves
\* the unit's map as it is, goes on to the next build with the process
\* running, and logs the build exactly when its status is SUCCESS; no map
\* has an entry under the empty hash or of a build with no commit hash, and
\* so no cell of the matrix points to one.
C18_NoCommitSkipped ==
    /\ [][\A i \in 1..MaxBuilders :
            (NoCommitNext(i) /\ unit'[i] # unit[i]) =>
                LET u == unit[i]
                    b == u.builds[u.k]
                IN /\ heap' = heap
                   /\ proc' = "running"
                   /\ unit'[i].pc = "loop" /\ unit'[i].k = u.k + 1
                   /\ unit'[i].logged =
                          IF b.status = "SUCCESS" THEN Append(u.logged, b.id)
                          ELSE u.logged]_vars
    /\ [](\A id \in DOMAIN heap : \A h \in DOMAIN heap[id] :
             h # "" /\ heap[id][h].Commit = h)
    /\ [](\A i \in 1..Len(dash.Results.rows) :
             \A j \in 1..Len(dash.Results.rows[i]) :
                 dash.Results.rows[i][j] # NilPtr =>
                     Deref(dash.Results.rows[i][j]).Commit # "")

\* A unit has passed a SUCCESS build with no commit hash, logged, and then a
\* build of a commit, which its map holds.
C18_Witness ==
    \E i \in 1..Len(unit) :
        /\ unit[i].pc = "loop" /\ Len(unit[i].builds) = 2 /\ unit[i].k = 3
        /\ CommitOf(unit[i].builds[1]) = ""
        /\ unit[i].builds[1].status = "SUCCESS"
        /\ unit[i].logged = <<unit[i].builds[1].id>>
        /\ CommitOf(unit[i].builds[2]) \in DOMAIN heap[unit[i].buildMap]

\* Link n of build b is the first whose name contains "(combined output)".
FirstCombined(b, n) ==
    /\ n \in 1..Len(b.links) /\ ContainsCombinedOutput(b.links[n].name)
    /\ \A k \in 1..(n - 1) : ~ContainsCombinedOutput(b.links[k].name)

\* url is the view URL of the first output log of b named stderr, or is
\* empty when b has no such log.
StderrOrEmpty(b, url) ==
    \/ \E n \in 1..Len(b.logs) :
          /\ b.logs[n].name = "stderr" /\ b.logs[n].viewUrl = url
          /\ \A k \in 1..(n - 1) : b.logs[k].name # "stderr"
    \/ url = "" /\ \A n \in 1..Len(b.logs) : b.logs[n].name # "stderr"

\* The builds stored so far, each with the result its unit's map holds.
Stored ==
    UNION {{<<unit[i].builds[k], heap[unit[i].buildMap][h]>> :
               k \in 1..(unit[i].k - 1), h \in DOMAIN heap[unit[i].buildMap]} :
           i \in {n \in 1..Len(unit) : unit[n].pc \in {"loop", "done"}}}

StoredResults == {x \in Stored : x[1].id = x[2].ID}

\* C19 as stated: a stored FAILURE build's LogURL is the url of its first
\* "(combined output)" link whenever it has such a link, else the view URL
\* of its first stderr log, else empty; a build of another status has
\* neither LogURL nor StepLogURL.
C19_LogURLAsStated ==
    \A x \in StoredResults :
        LET b == x[1]
            r == x[2]
        IN IF b.status = "FAILURE"
           THEN IF \E n \in 1..Len(b.links) : FirstCombined(b, n)
                THEN \E n \in 1..Len(b.links) :
                        FirstCombined(b, n) /\ r.LogURL = b.links[n].url
                ELSE StderrOrEmpty(b, r.LogURL)
           ELSE r.LogURL = "" /\ r.StepLogURL = ""

\* C19: a stored FAILURE build's LogURL is the url of its first "(combined
\* output)" link when it has such a link and that url is not empty, else
\* the view URL of its first stderr log, else empty; a build of another
\* status has neither LogURL nor StepLogURL.
C19_LogURLByPriority ==
    \A x \in StoredResults :
        LET b == x[1]
            r == x[2]
        IN IF b.status = "FAILURE"
           THEN IF \E n \in 1..Len(b.links) :
                      FirstCombined(b, n) /\ b.links[n].url # ""
                THEN \E n \in 1..Len(b.links) :
                        FirstCombined(b, n) /\ r.LogURL = b.links[n].url
                ELSE StderrOrEmpty(b, r.LogURL)
           ELSE r.LogURL = "" /\ r.StepLogURL = ""

\* A FAILURE build is stored whose first "(combined output)" link has no
\* url, followed by one that has a url, and whose second log is its first
\* stderr log: its LogURL is that log's view URL.
C19_Witness ==
    \E x \in StoredResults :
        /\ x[1].status = "FAILURE"
        /\ Len(x[1].links) = 2 /\ FirstCombined(x[1], 1)
        /\ x[1].links[1].url = "" /\ x[1].links[2].url = "https://logs/combined"
        /\ Len(x[1].logs) = 2
        /\ x[1].logs[1].name = "stdout" /\ x[1].logs[2].name = "stderr"
        /\ x[2].LogURL = x[1].logs[2].viewUrl

\* The cells of the matrix from cell (i, j) on, row by row and within a
\* row column by column.
RECURSIVE CellsFrom(_, _)
CellsFrom(i, j) ==
    IF i > Len(dash.Results.rows) THEN <<>>
    ELSE IF j > Len(dash.Results.rows[i]) THEN CellsFrom(i + 1, 1)
    ELSE <<[i |-> i, j |-> j]>> \o CellsFrom(i, j + 1)

CellPtr(c) == dash.Results.rows[c.i][c.j]

\* The non-empty cells that the loops of main have left behind.
CellsDone ==
    SelectSeq(CellsFrom(1, 1),
              LAMBDA c : /\ CellPtr(c) # NilPtr
                         /\ (c.i < ext.i \/ (c.i = ext.i /\ c.j < ext.j)))

\* The query of the cell main is at, when it is in flight or has failed.
QueryAtCell ==
    IF queries = <<>> THEN <<>>
    ELSE IF queries[Len(queries)].answered /\ queries[Len(queries)].err = NoErr
    THEN <<>>
    ELSE <<[i |-> ext.i, j |-> ext.j]>>

\* The lines of one answered query: one per result not skipped, in the
\* order of the results.
LinesOf(c, results) ==
    LET kept == SelectSeq(results, LAMBDA rr : rr.status # "SKIP")
    IN [n \in 1..Len(kept) |->
           CsvLine(Deref(CellPtr(c)), dash.Builders[c.i], kept[n])]

RECURSIVE LinesUpTo(_)
LinesUpTo(n) ==
    IF n = 0 THEN <<>>
    ELSE LinesUpTo(n - 1) \o LinesOf(CellsDone[n], queries[n].results)

\* C20: the queries sent so far are those of the non-empty cells that main
\* has passed, in row-major order, one each and each for its cell's
\* invocation, followed by the query of the cell main is at when that query
\* is in flight or has failed; only the last query can be without an
\* answer, so one query at most is outstanding; the lines printed are those
\* of the answered queries in that cell order, and within a cell in the
\* order of its results.
C20_RowMajorOneAtATime ==
    LET cells == CellsDone \o QueryAtCell IN
    /\ Len(queries) = Len(cells)
    /\ \A n \in 1..Len(queries) :
          /\ CellPtr(cells[n]) # NilPtr
          /\ queries[n].invocation = Deref(CellPtr(cells[n])).InvocationID
          /\ ~queries[n].answered => n = Len(queries)
    /\ Cardinality({n \in 1..Len(queries) : ~queries[n].answered}) <= 1
    /\ out = LinesUpTo(Len(CellsDone))

\* main has returned from a matrix of two builders and two commits that
\* has one empty cell, the second of the first row: three queries were
\* sent, for three invocations, the first with a skipped result between
\* two others, which gave two lines.
C20_Witness ==
    /\ proc = "exit"
    /\ Len(dash.Builders) = 2 /\ Len(dash.Commits) = 2
    /\ dash.Results.rows[1][1] # NilPtr /\ dash.Results.rows[1][2] = NilPtr
    /\ dash.Results.rows[2][1] # NilPtr /\ dash.Results.rows[2][2] # NilPtr
    /\ Len(queries) = 3
    /\ Cardinality({queries[n].invocation : n \in 1..3}) = 3
    /\ Len(queries[1].results) = 3 /\ Len(queries[2].results) = 1
    /\ Len(queries[3].results) = 1
    /\ Len(out) = 4
    /\ out[1].status = "FAIL" /\ out[2].status = "PASS"
    /\ out[3].builder # out[2].builder

\* The lines that a step adds to the output.
NewLines == SubSeq(out', Len(out) + 1, Len(out'))

\* C21: the step in which a query is answered adds to the output one line
\* for each result whose status is not SKIP, in the order of the results
\* and none for a SKIP result; a line has the status of its result, with
\* the duration in the pass field and the fail field empty when the status
\* is PASS, and in the fail field with the pass field empty otherwise; no
\* other step prints a line.
C21_OneLinePerResult ==
    [][IF InCall /\ ~InCall' /\ proc' = "running"
       THEN LET kept == SelectSeq(queries'[Len(queries)].results,
                                  LAMBDA rr : rr.status # "SKIP")
            IN /\ Len(out') = Len(out) + Len(kept)
               /\ SubSeq(out', 1, Len(out)) = out
               /\ \A k \in 1..Len(kept) :
                     /\ NewLines[k].status = kept[k].status
                     /\ IF kept[k].status = "PASS"
                        THEN /\ NewLines[k].pass = <<kept[k].dur>>
                             /\ NewLines[k].fail = <<>>
                        ELSE /\ NewLines[k].pass = <<>>
                             /\ NewLines[k].fail = <<kept[k].dur>>
       ELSE out' = out]_vars

\* The answers to three queries gave a FAIL line and a PASS line (a SKIP
\* result between them gave none), a CRASH line and no line at all.
C21_Witness ==
    /\ Len(queries) = 3 /\ ~InCall
    /\ Len(queries[1].results) = 3 /\ queries[1].results[2].status = "SKIP"
    /\ Len(queries[2].results) = 1 /\ queries[2].results[1].status = "CRASH"
    /\ queries[3].answered /\ queries[3].err = NoErr /\ queries[3].results = <<>>
    /\ Len(out) = 3
    /\ out[1].status = "FAIL" /\ out[1].fail = <<2>> /\ out[1].pass = <<>>
    /\ out[2].status = "PASS" /\ out[2].pass = <<1>> /\ out[2].fail = <<>>
    /\ out[3].status = "CRASH" /\ out[3].fail = <<3>> /\ out[3].pass = <<>>

\* C22: the lines of a run have one shape: every line has the builder
\* column, holding the name of a builder of dash.Builders, when
\* dash.Builders has more than one builder, and no line has it otherwise;
\* with the -builder flag set one builder at most is in scope and no line
\* has the column.
C22_OneShape ==
    /\ \A n \in 1..Len(out) :
          IF Len(dash.Builders) > 1
          THEN \E i \in 1..Len(dash.Builders) :
                  out[n].builder = <<dash.Builders[i].Name>>
          ELSE out[n].builder = <<>>
    /\ flagBuilder # "" =>
          /\ Len(dash.Builders) <= 1
          /\ \A n \in 1..Len(out) : out[n].builder = <<>>

\* With -builder b1 and a registry that served b1 and b2, one builder is
\* in scope and the line printed has no builder column.
C22_Witness ==
    /\ flagBuilder = "b1" /\ served = {"b1", "b2"}
    /\ Len(dash.Builders) = 1 /\ dash.Builders[1].Name = "b1"
    /\ Len(out) = 1 /\ out[1].builder = <<>>

\* How far the main goroutine is: in ListCommits, in ListBuilders, launching
\* the units, in g.Wait, back from ReadBoard.
Stage(p) ==
    CASE p \in {"ListCommits", "ListCommitsDone"} -> 1
      [] p \in {"ListBuilders", "ListBuildersDone"} -> 2
      [] p \in {"Loop", "Go"} -> 3
      [] p = "Wait" -> 4
      [] OTHER -> 5

\* C23: ReadBoard goes through its stages in order and never back, so
\* ListCommits and then ListBuilders are called once each; ListBuilders
\* sends no request before ListCommits has returned, and a unit exists
\* (and so sends a build search) only when both have returned; the commit
\* list does not change once ListCommits has returned, and every row of
\* the matrix has a cell for each of its commits; Results is written only
\* in g.Wait's return, every builder's unit having been started and ended.
C23_StagesInOrder ==
    /\ [][/\ Stage(pc') >= Stage(pc)
          /\ Stage(pc) = 1 /\ Stage(pc') > 1 => pc = "ListCommitsDone"
          /\ Stage(pc) >= 2 => dash'.Commits = dash.Commits
          /\ Stage(pc) >= 3 => dash'.Builders = dash.Builders
          /\ dash'.Results # dash.Results =>
                /\ pc = "Wait" /\ pc' = "Returned"
                /\ Len(unit) = Len(dash.Builders)
                /\ \A i \in 1..Len(unit) : unit[i].pc = "done"
                /\ \A i \in 1..Len(dash'.Results.rows) :
                      Len(dash'.Results.rows[i]) = Len(dash.Commits)]_vars
    /\ [](lb.sent # <<>> => Stage(pc) >= 2 /\ lc.sent = <<>>)
    /\ [](unit # <<>> => Stage(pc) >= 3 /\ lc.sent = <<>> /\ lb.sent = <<>>)

\* ReadBoard has returned nil for two builders whose units ran at once
\* (nProc = 2), and both rows have a result of the one commit listed.
C23_Witness ==
    /\ pc = "Returned" /\ rbErr = NoErr /\ nProc = 2
    /\ Len(dash.Builders) = 2 /\ Len(unit) = 2 /\ Len(dash.Commits) = 1
    /\ ~dash.Results.nil
    /\ dash.Results.rows[1][1] # NilPtr /\ dash.Results.rows[2][1] # NilPtr

\* The project and the id that source entry n of build b names: those under
\* key "gitilesCommit", under "gitiles_commit" when that key is absent, and
\* empty ones when both are.
EntryOf(b, n) ==
    IF "gitilesCommit" \in DOMAIN b.sources[n] THEN b.sources[n].gitilesCommit
    ELSE IF "gitiles_commit" \in DOMAIN b.sources[n]
    THEN b.sources[n].gitiles_commit
    ELSE [project |-> "", id |-> ""]

\* The entries of build b that name a commit of `project`.
EntriesOf(b, project) ==
    {n \in 1..Len(b.sources) : EntryOf(b, n).project = project}

\* hash is the id of the last entry of b that names a commit of `project`,
\* and is empty when b has no such entry.
HashFrom(b, project, hash) ==
    IF EntriesOf(b, project) = {} THEN hash = ""
    ELSE \E n \in EntriesOf(b, project) :
            /\ hash = EntryOf(b, n).id
            /\ \A k \in EntriesOf(b, project) : k <= n

\* The builds a unit has gone past, stored or not.
Passed ==
    UNION {{unit[i].builds[k] : k \in 1..(unit[i].k - 1)} :
           i \in {n \in 1..Len(unit) : unit[n].pc = "loop"}}

\* C24 as stated: for every target repo, a stored build's Commit is the id
\* of an entry of the target repo and its GoCommit is the id of an entry of
\* the repo "go" whenever the build has such an entry.
C24_BothHashesEveryRepo ==
    \A x \in StoredResults :
        /\ \E n \in EntriesOf(x[1], dash.Repo) :
              x[2].Commit = EntryOf(x[1], n).id
        /\ EntriesOf(x[1], "go") # {} =>
              \E n \in EntriesOf(x[1], "go") :
                 x[2].GoCommit = EntryOf(x[1], n).id

\* C24: a stored build's Commit is the id of its last entry of the target
\* repo; its GoCommit is the id of its last entry of the repo "go" when the
\* target repo is another one, and is empty when the target repo is "go"
\* (an entry of "go" is then the subject's); entries of other projects and
\* entries with neither key change nothing; a build is stored exactly when
\* the Commit so read is not empty.
C24_HashesBySwitch ==
    /\ \A x \in StoredResults :
          /\ HashFrom(x[1], dash.Repo, x[2].Commit)
          /\ IF dash.Repo = "go" THEN x[2].GoCommit = ""
             ELSE HashFrom(x[1], "go", x[2].GoCommit)
    /\ \A b \in Passed :
          (\E x \in StoredResults : x[1] = b) <=> ~HashFrom(b, dash.Repo, "")

\* For the target repo "tools" a build is stored whose entries are one of
\* "go" and then one with both keys, of which "gitilesCommit" is read: the
\* companion hash is the first entry's and the subject hash the second's.
C24_Witness ==
    \E x \in StoredResults :
        /\ dash.Repo = "tools"
        /\ Len(x[1].sources) = 2
        /\ EntryOf(x[1], 1) = [project |-> "go", id |-> "h3"]
        /\ DOMAIN x[1].sources[1] = {"gitiles_commit"}
        /\ DOMAIN x[1].sources[2] = {"gitilesCommit", "gitiles_commit"}
        /\ x[2].Commit = "h4" /\ x[2].GoCommit = "h3"

\* Step n of build b has status FAILURE and a log named stderr or output.
Qualifies(b, n) ==
    /\ b.steps[n].status = "FAILURE"
    /\ \E k \in 1..Len(b.steps[n].logs) :
          b.steps[n].logs[k].name \in {"stderr", "output"}

\* url is the view URL of the first log of step s named stderr or output.
FirstStepLog(s, url) ==
    \E k \in 1..Len(s.logs) :
        /\ s.logs[k].name \in {"stderr", "output"} /\ s.logs[k].viewUrl = url
        /\ \A m \in 1..(k - 1) : s.logs[m].name \notin {"stderr", "output"}

\* C25: a stored FAILURE build's StepLogURL is the view URL of the first
\* log named stderr or output of the last of its steps that has status
\* FAILURE and such a log, and is empty when it has no such step; it is the
\* same whether the build has a "(combined output)" link or not.
C25_LastFailedStepLog ==
    \A x \in StoredResults :
        LET b == x[1]
            r == x[2]
        IN b.status = "FAILURE" =>
              IF \E n \in 1..Len(b.steps) : Qualifies(b, n)
              THEN \E n \in 1..Len(b.steps) :
                      /\ Qualifies(b, n)
                      /\ \A m \in (n + 1)..Len(b.steps) : ~Qualifies(b, m)
                      /\ FirstStepLog(b.steps[n], r.StepLogURL)
              ELSE r.StepLogURL = ""

\* A FAILURE build is stored whose last step failed with no stderr or
\* output log and whose first step failed with an output log before its
\* stderr log: StepLogURL is that output log's view URL, the build's LogURL
\* being that of its "(combined output)" link.
C25_Witness ==
    \E x \in StoredResults :
        /\ x[1].status = "FAILURE" /\ Len(x[1].steps) = 2
        /\ x[1].steps[2] = MkStep("test", "FAILURE", <<"stdout">>)
        /\ x[1].steps[1] =
               MkStep("build", "FAILURE", <<"stdout", "output", "stderr">>)
        /\ x[2].StepLogURL = "https://logs/build/output"
        /\ x[2].LogURL = "https://logs/combined"

\* C26 as stated: every Log request carries the committish "refs/heads/" +
\* the branch ReadBoard passes (dash.GoBranch, by which ListBuilders
\* filters), whatever the repository.
C26_CallerBranchEveryRepo ==
    \A n \in 1..Len(lc.sent) :
        lc.sent[n].committish = "refs/heads/" \o dash.GoBranch

\* C26: every Log request of a ListCommits call names the repository
\* passed and carries the committish "refs/heads/" + the branch passed
\* when the repository is "go", and "refs/heads/master" when it is any
\* other one, whatever the branch passed.
C26_BranchByRepo ==
    \A n \in 1..Len(lc.sent) :
        /\ lc.sent[n].project = dash.Repo
        /\ lc.sent[n].committish =
               IF dash.Repo = "go" THEN "refs/heads/" \o dash.GoBranch
               ELSE "refs/heads/master"

\* ListCommits has sent two requests for the repository "tools" and the
\* branch "release-branch": both carry refs/heads/master.
C26_Witness ==
    /\ dash.Repo = "tools" /\ dash.GoBranch = "release-branch"
    /\ Len(lc.sent) = 2
    /\ lc.sent[1].committish = "refs/heads/master"
    /\ lc.sent[2].committish = "refs/heads/master"
    /\ lc.sent[2].token = lc.sent[1].next

\* ReadBoard has been called and has not returned.
InReadBoard == proc = "running" /\ pc \notin {"Returned", "Extract"}

\* C27: ReadBoard, once called, returns (or the process ends in log.Fatal);
\* when it returns, ListBuilders having returned its builders, a unit has
\* been started for every builder and every unit has ended; and while g.Go
\* waits for a token of the limit a unit is running, which gives its token
\* back when it ends.
C27_ReadBoardReturns ==
    /\ InReadBoard ~> ~InReadBoard
    /\ []((pc \in {"Returned", "Extract"} /\ rbErr # ErrListBuilders) =>
             /\ Len(unit) = Len(dash.Builders)
             /\ RunningUnits = {})
    /\ []((pc = "Go" /\ g.active >= nProc) => RunningUnits # {})

\* ReadBoard has returned, having run three units under nProc = 1, one of
\* which returned an error.
C27_Witness ==
    /\ pc = "Returned" /\ nProc = 1
    /\ Len(dash.Builders) = 3 /\ Len(unit) = 3 /\ RunningUnits = {}
    /\ Len(errLog) = 1 /\ rbErr = errLog[1]

\* The calls of history h that have not returned, the innermost last; a
\* return that is not of the innermost one leaves <<"unnested">>.
RECURSIVE Open(_)
Open(h) ==
    IF h = <<>> THEN <<>>
    ELSE LET o == Open(SubSeq(h, 1, Len(h) - 1))
             e == h[Len(h)]
         IN IF o = <<"unnested">> THEN o
            ELSE IF e.ev = "call" THEN Append(o, <<e.fn, e.x>>)
            ELSE IF o # <<>> /\ o[Len(o)] = <<e.fn, e.x>>
            THEN SubSeq(o, 1, Len(o) - 1)
            ELSE <<"unnested">>

\* The host has called an export, which has not returned.
ExportRuns == stack # <<>>

\* C28: a call of I() or of G(x), 0 <= x <= MaxArg, by the host returns;
\* every return is that of the innermost call in progress, so a call ends
\* only after the calls it made; F does not return before it has the value
\* that the goroutine of E sent, and once I has returned that goroutine has
\* ended too, so neither side of ch is left waiting.
C28_ExportsReturn ==
    /\ ExportRuns ~> ~ExportRuns
    /\ [](Open(trace) # <<"unnested">>)
    /\ [](Len(Open(trace)) = Len(stack))
    /\ [](\A n \in 1..Len(stack) :
             (stack[n].fn = "F" /\ stack[n].at = "received") =>
                 sender = [st |-> "done", val |-> stack[n].val])
    /\ []((trace # <<>> /\ trace[1].fn = "I" /\ ~ExportRuns) =>
             sender.st = "done")

\* I has returned after E, F and G(4), which went through J(2) and J(0),
\* and the goroutine of E has ended, its value received.
C28_Witness ==
    /\ ~ExportRuns /\ Len(trace) = 18
    /\ trace[1] = [ev |-> "call", fn |-> "I", x |-> 0]
    /\ trace[5] = [ev |-> "return", fn |-> "F", x |-> 0]
    /\ trace[8] = [ev |-> "call", fn |-> "J", x |-> 2]
    /\ trace[11] = [ev |-> "call", fn |-> "J", x |-> 0]
    /\ trace[18] = [ev |-> "return", fn |-> "I", x |-> 0]
    /\ sender = [st |-> "done", val |-> ESum]

====
